---- MODULE Spec2Model ----
(***************************************************************************)
(* A model of the size-reduction pipeline of svg_generator:                *)
(*   src/src/svg_generator/utils/compliance.py    (SanitizeUtils)          *)
(*   src/src/svg_generator/utils/optimization.py  (CompetitionOptimizer)   *)
(*                                                                         *)
(* A text is a sequence of lexemes (TLA+ strings); the text it stands for  *)
(* is their concatenation.  The lexemes are chosen so that no pattern of   *)
(* the program matches part of one: "id" is the two lexemes "i" "d"        *)
(* because the pattern d="..." of simplify_paths matches inside id="...",  *)
(* "fill-opacity" is "fill-" "opacity" because the pattern opacity="1"     *)
(* matches inside it, and every digit is a lexeme of its own.              *)
(***************************************************************************)
EXTENDS Integers, Sequences, FiniteSets, TLC

(***************************************************************************)
(* Lexemes                                                                 *)
(***************************************************************************)
DQ == "\""
SVGNS == "http://www.w3.org/2000/svg"
INKNS == "http://www.inkscape.org/namespaces/inkscape"

\* \s of the patterns
WS == {" ", "\n"}
\* [0-9]
Digits == {"0", "1", "2", "3", "4", "5", "6", "7", "8", "9"}
\* lexemes made only of [a-z\-]
LowerToks ==
    {"svg", "defs", "g", "rect", "path", "title", "desc", "metadata", "text",
     "xmlns", "inkscape", "sodipodi", "dc", "cc", "rdf", "label", "i", "d",
     "class", "fill", "fill-", "stroke", "stroke-", "width", "opacity",
     "version", "href", "x", "y", "red", "butt", "miter", "linecap",
     "linejoin", "-", "circle", "line", "cx", "cy", "r", "height", "data-", "z-",
     "index", "a", "b"}
\* the other lexemes an XML name can be made of
OtherNameToks == {"linearGradient", "ns0", "ns1", "ns2", "M", "L", "Label", "_", "viewBox"}
NameToks == (LowerToks \ {"-"}) \cup OtherNameToks
\* (inkscape|sodipodi|dc|cc|rdf)
EditorPrefixes == {"inkscape", "sodipodi", "dc", "cc", "rdf"}
\* lexemes that are one character of two UTF-8 bytes
TwoByteChars == {"é"}

\* len(tok.encode('utf-8'))
ByteLen(tok) == IF tok \in TwoByteChars THEN 2 ELSE Len(tok)

\* Sums and concatenations split their range in two, which keeps the depth of
\* the evaluation logarithmic in the length of a text.
RECURSIVE ByteSizeOf(_,_,_)
ByteSizeOf(t, lo, hi) ==
    IF lo > hi THEN 0
    ELSE IF lo = hi THEN ByteLen(t[lo])
    ELSE LET mid == (lo + hi) \div 2
         IN  ByteSizeOf(t, lo, mid) + ByteSizeOf(t, mid + 1, hi)

\* len(svg_str.encode('utf-8'))
ByteSize(t) == ByteSizeOf(t, 1, Len(t))

RECURSIVE FlattenOf(_,_,_)
FlattenOf(ss, lo, hi) ==
    IF lo > hi THEN <<>>
    ELSE IF lo = hi THEN ss[lo]
    ELSE LET mid == (lo + hi) \div 2
         IN  FlattenOf(ss, lo, mid) \o FlattenOf(ss, mid + 1, hi)

\* the concatenation of a sequence of sequences
Flatten(ss) == FlattenOf(ss, 1, Len(ss))

(***************************************************************************)
(* The regular expressions of the program.  A pattern is a sequence of     *)
(* items; an item accepts the lexemes of a set (or of its complement),     *)
(* once, optionally, or repeated, greedily or lazily.  MatchAt is the      *)
(* backtracking match of Python's re: the first way to match in the order  *)
(* greedy items try long runs first and lazy items short ones.             *)
(***************************************************************************)
Item(S, neg, min, many, lazy) ==
    [set |-> S, neg |-> neg, min |-> min, many |-> many, lazy |-> lazy, end |-> FALSE]
\* x, x?, x+, x* for x a set of lexemes; [^x]+, [^x]*; .*? ; $
One(S)      == Item(S, FALSE, 1, FALSE, FALSE)
Opt(S)      == Item(S, FALSE, 0, FALSE, FALSE)
Plus(S)     == Item(S, FALSE, 1, TRUE, FALSE)
Star(S)     == Item(S, FALSE, 0, TRUE, FALSE)
PlusNot(S)  == Item(S, TRUE, 1, TRUE, FALSE)
StarNot(S)  == Item(S, TRUE, 0, TRUE, FALSE)
LazyAny     == Item({}, TRUE, 0, TRUE, TRUE)
AtEnd       == [Item({}, FALSE, 0, FALSE, FALSE) EXCEPT !.end = TRUE]
Lit(toks)   == [k \in 1..Len(toks) |-> One({toks[k]})]

Accepts(it, tok) == (tok \in it.set) # it.neg

Least(S) == CHOOSE x \in S : \A y \in S : x <= y
Greatest(S) == CHOOSE x \in S : \A y \in S : x >= y

\* the length of the run from i up to the first of stops, or to the end
RunTo(t, i, stops) == IF stops = {} THEN Len(t) + 1 - i ELSE Least(stops) - i

\* how many lexemes from position i on the item can take at most
RunLen(t, i, it) ==
    IF i > Len(t) \/ ~Accepts(it, t[i]) THEN 0
    ELSE IF ~it.many THEN 1
    ELSE RunTo(t, i, {j \in i..Len(t) : ~Accepts(it, t[j])})

RECURSIVE MatchAt(_,_,_,_)
\* cs: the counts of lexemes item k can take with the rest matching; a greedy
\* item takes the most, a lazy one the fewest
MatchTaking(t, i, p, k, cs) ==
    IF cs = {} THEN 0
    ELSE MatchAt(t, i + (IF p[k].lazy THEN Least(cs) ELSE Greatest(cs)), p, k + 1)

\* r: the longest run item k can take at position i
MatchRun(t, i, p, k, r) ==
    IF r < p[k].min THEN 0
    ELSE MatchTaking(t, i, p, k,
                     {c \in p[k].min..r : MatchAt(t, i + c, p, k + 1) # 0})

\* the end (the position after the match) of the match of items k.. of p at
\* position i of t, or 0 when there is none
MatchAt(t, i, p, k) ==
    IF k > Len(p) THEN i
    ELSE IF p[k].end
    THEN (IF i = Len(t) + 1 THEN MatchAt(t, i, p, k + 1) ELSE 0)
    ELSE MatchRun(t, i, p, k, RunLen(t, i, p[k]))

RECURSIVE MatchesFrom(_,_)
\* the match that starts at s, and the matches after it
MatchesAfter(ends, s) == <<(<<s, ends[s] - 1>>)>> \o MatchesFrom(ends, ends[s])

MatchesAmong(ends, starts) ==
    IF starts = {} THEN <<>> ELSE MatchesAfter(ends, Least(starts))

\* ends[j] being the end of the match at position j (0 for none): the
\* leftmost matches from position i on, each as <<first, last>>, none
\* starting inside the one before
MatchesFrom(ends, i) == MatchesAmong(ends, {j \in i..Len(ends) : ends[j] > j})

\* re.finditer: the leftmost non-overlapping matches of p in t from i on
Matches(t, p, i) == MatchesFrom([j \in 1..Len(t) |-> MatchAt(t, j, p, 1)], i)

\* the text between the matches ms kept, every match m replaced by Repl(m)
Replaced(t, ms, Repl(_)) ==
    Flatten([j \in 1..(2 * Len(ms) + 1) |->
                IF j % 2 = 1
                THEN SubSeq(t, IF j = 1 THEN 1 ELSE ms[(j - 1) \div 2][2] + 1,
                               IF j > 2 * Len(ms) THEN Len(t)
                               ELSE ms[(j + 1) \div 2][1] - 1)
                ELSE Repl(SubSeq(t, ms[j \div 2][1], ms[j \div 2][2]))])

\* re.sub(p, repl, t)
Sub(t, p, Repl(_)) ==
    Replaced(t, IF t = <<>> THEN <<>> ELSE Matches(t, p, 1), Repl)

\* re.sub(p, '', t)
Remove(t, p) == Sub(t, p, LAMBDA m : <<>>)

(***************************************************************************)
(* SanitizeUtils: the stages that rewrite the text                         *)
(***************************************************************************)
\* r'<metadata>.*?</metadata>' with re.DOTALL
MetadataPattern ==
    Lit(<<"<", "metadata", ">">>) \o <<LazyAny>> \o Lit(<<"</", "metadata", ">">>)
\* r'<!--.*?-->' with re.DOTALL
CommentPattern == Lit(<<"<!--">>) \o <<LazyAny>> \o Lit(<<"-->">>)
\* r'\s+xmlns:(inkscape|sodipodi|dc|cc|rdf)="[^"]+"'
EditorNamespacePattern ==
    <<Plus(WS)>> \o Lit(<<"xmlns", ":">>) \o <<One(EditorPrefixes)>>
    \o Lit(<<"=", DQ>>) \o <<PlusNot({DQ})>> \o Lit(<<DQ>>)
\* r'\s+(inkscape|sodipodi|dc|cc|rdf):[a-z\-]+="[^"]+"'
EditorAttributePattern ==
    <<Plus(WS), One(EditorPrefixes)>> \o Lit(<<":">>) \o <<Plus(LowerToks)>>
    \o Lit(<<"=", DQ>>) \o <<PlusNot({DQ})>> \o Lit(<<DQ>>)

remove_metadata(svg_str) ==
    LET s1 == Remove(svg_str, MetadataPattern)
        s2 == Remove(s1, CommentPattern)
        s3 == Remove(s2, EditorNamespacePattern)
    IN  Remove(s3, EditorAttributePattern)

\* lexemes whose last character is '>', and whose first character is '<'
EndsGT == {">", "/>", "-->"}
StartsLT == {"<", "</", "<!--"}

RECURSIVE Strip(_)
\* str.strip()
Strip(t) ==
    IF t = <<>> THEN t
    ELSE IF Head(t) \in WS THEN Strip(Tail(t))
    ELSE IF t[Len(t)] \in WS THEN Strip(SubSeq(t, 1, Len(t) - 1))
    ELSE t

minify_svg(svg_str) ==
    LET \* re.sub(r'\s+', ' ', svg_str)
        s1 == Sub(svg_str, <<Plus(WS)>>, LAMBDA m : <<" ">>)
        \* re.sub(r'>\s+<', '><', svg_str)
        s2 == Sub(s1, <<One(EndsGT), Plus(WS), One(StartsLT)>>,
                  LAMBDA m : <<m[1], m[Len(m)]>>)
        \* re.sub(r'"\s+', '"', svg_str)
        s3 == Sub(s2, <<One({DQ}), Plus(WS)>>, LAMBDA m : <<DQ>>)
        \* re.sub(r'\s+="', '="', svg_str)
        s4 == Sub(s3, <<Plus(WS)>> \o Lit(<<"=", DQ>>), LAMBDA m : <<"=", DQ>>)
        \* re.sub(r'\s+version="[^"]+"', '', svg_str)
        s5 == Remove(s4, <<Plus(WS)>> \o Lit(<<"version", "=", DQ>>)
                         \o <<PlusNot({DQ})>> \o Lit(<<DQ>>))
        \* re.sub(r'stroke-width="1"', 'stroke-width="1"', svg_str)
        s6 == Sub(s5, Lit(<<"stroke-", "width", "=", DQ, "1", DQ>>),
                  LAMBDA m : <<"stroke-", "width", "=", DQ, "1", DQ>>)
    IN  Strip(s6)

(***************************************************************************)
(* Numbers of path data.  A literal is read as the decimal it writes       *)
(* (float), rounded to `precision` places (round) and written back (str).  *)
(* A value is kept as a sign and a natural number of units of 10^-scale.   *)
(***************************************************************************)
DigitVal(c) ==
    CASE c = "0" -> 0 [] c = "1" -> 1 [] c = "2" -> 2 [] c = "3" -> 3
      [] c = "4" -> 4 [] c = "5" -> 5 [] c = "6" -> 6 [] c = "7" -> 7
      [] c = "8" -> 8 [] c = "9" -> 9
DigitTok(n) == <<"0", "1", "2", "3", "4", "5", "6", "7", "8", "9">>[n + 1]

RECURSIVE Pow10(_)
Pow10(n) == IF n = 0 THEN 1 ELSE 10 * Pow10(n - 1)

RECURSIVE DigitsToNat(_,_)
DigitsToNat(ds, acc) ==
    IF ds = <<>> THEN acc ELSE DigitsToNat(Tail(ds), 10 * acc + DigitVal(Head(ds)))

RECURSIVE NatToDigits(_)
\* str(n) for a natural number n
NatToDigits(n) ==
    IF n < 10 THEN <<DigitTok(n)>>
    ELSE NatToDigits(n \div 10) \o <<DigitTok(n % 10)>>

RECURSIVE FracDigits(_,_)
\* the `width` digits of n, leading zeros kept
FracDigits(n, width) ==
    IF width = 0 THEN <<>>
    ELSE FracDigits(n \div 10, width - 1) \o <<DigitTok(n % 10)>>

RECURSIVE StripZeros(_,_)
\* n units of 10^-scale with the trailing zeros of the fraction dropped
StripZeros(n, scale) ==
    IF scale > 0 /\ n % 10 = 0 THEN StripZeros(n \div 10, scale - 1)
    ELSE <<n, scale>>

\* float(lit): [neg, n, scale], the literal's value being (-)n * 10^-scale
ParseNumber(lit) ==
    LET signed == Head(lit) \in {"-", "+"}
        body   == IF signed THEN Tail(lit) ELSE lit
        dot    == IF \E k \in 1..Len(body) : body[k] = "."
                  THEN CHOOSE k \in 1..Len(body) : body[k] = "."
                  ELSE Len(body) + 1
        ip     == SubSeq(body, 1, dot - 1)
        fp     == SubSeq(body, dot + 1, Len(body))
    IN  [neg |-> signed /\ Head(lit) = "-",
         n |-> DigitsToNat(ip \o fp, 0),
         scale |-> Len(fp)]

\* round(num, precision): to the nearest multiple of 10^-precision; a value
\* half-way between two (one that a float holds exactly) goes to the even one
RoundNumber(v, precision) ==
    IF v.scale <= precision THEN v
    ELSE LET unit == Pow10(v.scale - precision)
             q    == v.n \div unit
             r    == v.n % unit
             up   == 2 * r > unit \/ (2 * r = unit /\ q % 2 = 1)
         IN  [neg |-> v.neg, n |-> IF up THEN q + 1 ELSE q, scale |-> precision]

\* str(int(rounded)) when rounded == int(rounded), str(rounded) otherwise
FormatNumber(v) ==
    LET z    == StripZeros(v.n, v.scale)
        n    == z[1]
        sc   == z[2]
        sign == IF v.neg /\ n # 0 THEN <<"-">> ELSE <<>>
    IN  IF sc = 0 THEN sign \o NatToDigits(n)
        ELSE sign \o NatToDigits(n \div Pow10(sc)) \o <<".">>
             \o FracDigits(n % Pow10(sc), sc)

\* r'[-+]?[0-9]*\.?[0-9]+'
NumberPattern == <<Opt({"-", "+"}), Star(Digits), Opt({"."}), Plus(Digits)>>

replace_number(num_match, precision) ==
    FormatNumber(RoundNumber(ParseNumber(num_match), precision))

\* r'd="([^"]+)"'
PathDataPattern == Lit(<<"d", "=", DQ>>) \o <<PlusNot({DQ})>> \o Lit(<<DQ>>)

round_numbers(match, precision) ==
    LET path_data == SubSeq(match, 4, Len(match) - 1)
    IN  <<"d", "=", DQ>>
        \o Sub(path_data, NumberPattern, LAMBDA m : replace_number(m, precision))
        \o <<DQ>>

simplify_paths(svg_str, precision) ==
    Sub(svg_str, PathDataPattern, LAMBDA m : round_numbers(m, precision))

(***************************************************************************)
(* Sizes.  A number of kilobytes (size_kb, max_size_kb) is kept as its     *)
(* count of 1/1024 KB: size_bytes / 1024 is exact in a float, so size_kb   *)
(* is the byte count over KbDen.                                           *)
(***************************************************************************)
KbDen == 1024

\* size_bytes / 1024, as a count of 1/KbDen KB
KbOfBytes(size_bytes) == (size_bytes * KbDen) \div 1024

\* a size equal to the ceiling refused
validate_size_strict(svg_str, max_size_kb) ==
    [is_valid |-> KbOfBytes(ByteSize(svg_str)) < max_size_kb,
     size_kb |-> KbOfBytes(ByteSize(svg_str))]

validate_size(svg_str, max_size_kb) ==
    LET size_bytes == ByteSize(svg_str)
        size_kb    == KbOfBytes(size_bytes)
    IN  [is_valid |-> size_kb <= max_size_kb, size_kb |-> size_kb]

(***************************************************************************)
(* xml.etree.ElementTree: ET.fromstring and ET.tostring.                   *)
(* An element is [uri, name, attrs, text, kids, tail]: the tag {uri}name   *)
(* (uri "" for no namespace), the attributes in document order, each       *)
(* [uri, name, val], the text before the first child, the children, and    *)
(* the text after the end tag.                                             *)
(***************************************************************************)
NameChars == NameToks \cup Digits \cup {"-", "."}
NoElem == [uri |-> "", name |-> <<>>, attrs |-> <<>>, text |-> <<>>,
           kids |-> <<>>, tail |-> <<>>]

\* a name of n1 lexemes read at i; n2 lexemes of local name after a colon
QNameRead(t, i, n1, n2) ==
    IF n2 = 0
    THEN [ok |-> TRUE, pfx |-> <<>>, name |-> SubSeq(t, i, i + n1 - 1), pos |-> i + n1]
    ELSE [ok |-> TRUE, pfx |-> SubSeq(t, i, i + n1 - 1),
          name |-> SubSeq(t, i + n1 + 1, i + n1 + n2), pos |-> i + n1 + 1 + n2]

QNameFrom(t, i, n1) ==
    IF n1 = 0 THEN [ok |-> FALSE, pfx |-> <<>>, name |-> <<>>, pos |-> i]
    ELSE QNameRead(t, i, n1,
                   IF i + n1 < Len(t) /\ t[i + n1] = ":" /\ t[i + n1 + 1] \in NameToks
                   THEN RunLen(t, i + n1 + 1, Plus(NameChars)) ELSE 0)

\* a qualified name at position i: [ok, pfx, name, pos]
ParseQName(t, i) ==
    QNameFrom(t, i, IF i <= Len(t) /\ t[i] \in NameToks
                    THEN RunLen(t, i, Plus(NameChars)) ELSE 0)

\* the references &gt; of a text or a value read, and written by the serializer
Unescape(v) == [k \in 1..Len(v) |-> IF v[k] = "&gt;" THEN ">" ELSE v[k]]
Escape(v) ==
    Flatten([k \in 1..Len(v) |->
                CASE v[k] = ">"   -> <<"&gt;">>
                  [] v[k] = "/>"  -> <<"/", "&gt;">>
                  [] v[k] = "-->" -> <<"-", "-", "&gt;">>
                  [] OTHER        -> <<v[k]>>])
\* an attribute value as the parser reports it: white space becomes a space
AttrValue(v) == [k \in 1..Len(v) |-> IF v[k] \in WS THEN " " ELSE Unescape(v)[k]]

SkipWS(t, i) == i + RunLen(t, i, Star(WS))

RECURSIVE ParseAttrs(_,_,_)
\* the value opened by the quote at v, of n lexemes
AttrQuoted(t, i, acc, q, v, n) ==
    IF v + n + 1 > Len(t) THEN [ok |-> FALSE, attrs |-> acc, pos |-> i, close |-> ">"]
    ELSE IF \E k \in 1..n : t[v + k] \in StartsLT
    THEN [ok |-> FALSE, attrs |-> acc, pos |-> i, close |-> ">"]
    ELSE ParseAttrs(t, v + n + 2,
                    Append(acc, [pfx |-> q.pfx, name |-> q.name,
                                 val |-> AttrValue(SubSeq(t, v + 1, v + n))]))

\* the "=" expected at e, the opening quote at v
AttrEquals(t, i, acc, q, e, v) ==
    IF e > Len(t) \/ t[e] # "=" THEN [ok |-> FALSE, attrs |-> acc, pos |-> i, close |-> ">"]
    ELSE IF v > Len(t) \/ t[v] # DQ
    THEN [ok |-> FALSE, attrs |-> acc, pos |-> i, close |-> ">"]
    ELSE AttrQuoted(t, i, acc, q, v, RunLen(t, v + 1, StarNot({DQ})))

AttrNamed(t, i, acc, q, e) ==
    IF ~q.ok THEN [ok |-> FALSE, attrs |-> acc, pos |-> i, close |-> ">"]
    ELSE AttrEquals(t, i, acc, q, e, SkipWS(t, e + 1))

\* j: the first position after the white space at i
AttrsFrom(t, i, acc, j) ==
    IF j > Len(t) THEN [ok |-> FALSE, attrs |-> acc, pos |-> i, close |-> ">"]
    ELSE IF t[j] \in {">", "/>"}
    THEN [ok |-> TRUE, attrs |-> acc, pos |-> j + 1, close |-> t[j]]
    ELSE IF j = i THEN [ok |-> FALSE, attrs |-> acc, pos |-> i, close |-> ">"]
    ELSE AttrNamed(t, i, acc, ParseQName(t, j), SkipWS(t, ParseQName(t, j).pos))

\* the attributes of a start tag from position i: [ok, attrs, pos, close],
\* each attribute [pfx, name, val]; close is ">" or "/>"
ParseAttrs(t, i, acc) == AttrsFrom(t, i, acc, SkipWS(t, i))

\* namespace declarations in scope: a sequence of <<prefix, uri>>, the
\* innermost first; the prefix <<>> is the default namespace
Bound(env, pfx) == \E k \in 1..Len(env) : env[k][1] = pfx
Lookup(env, pfx) ==
    env[CHOOSE k \in 1..Len(env) :
            env[k][1] = pfx /\ \A m \in 1..(k - 1) : env[m][1] # pfx][2]
IsDecl(a) == a.pfx = <<"xmlns">> \/ (a.pfx = <<>> /\ a.name = <<"xmlns">>)
DeclOf(a) == IF a.pfx = <<>> THEN <<(<<>>), a.val[1]>> ELSE <<a.name, a.val[1]>>

\* the elements of s whose index is in keep, in order
Filter(s, keep) == Flatten([k \in 1..Len(s) |-> IF k \in keep THEN <<s[k]>> ELSE <<>>])

\* appended to the text of the element, or to the tail of its last child
AddText(text, kids, toks) ==
    IF kids = <<>> THEN <<text \o toks, kids>>
    ELSE <<text, [kids EXCEPT ![Len(kids)].tail = @ \o toks]>>

\* the end of the comment at position i (where a "<!--" is), or 0 when it is
\* not closed or holds "--"
CommentBody(body, e) ==
    IF \E k \in 1..Len(body) : body[k] = "<!--" THEN 0
    ELSE IF \E k \in 1..(Len(body) - 1) : body[k] = "-" /\ body[k + 1] = "-" THEN 0
    ELSE IF body # <<>> /\ body[Len(body)] = "-" THEN 0
    ELSE e

CommentTo(t, i, e) == IF e = 0 THEN 0 ELSE CommentBody(SubSeq(t, i + 1, e - 2), e)

CommentEnd(t, i) == CommentTo(t, i, MatchAt(t, i, CommentPattern, 1))

RECURSIVE ParseElement(_,_,_)
RECURSIVE ParseContent(_,_,_,_,_)

BadElement(i) == [ok |-> FALSE, elem |-> NoElem, pos |-> i]

\* the namespace declarations among the attributes read, and the others
Decls(raw) == Filter(raw, {k \in 1..Len(raw) : IsDecl(raw[k])})
Plain(raw) == Filter(raw, {k \in 1..Len(raw) : ~IsDecl(raw[k])})
\* the declarations in scope inside the element
Scope(decls, env) == [k \in 1..Len(decls) |-> DeclOf(decls[k])] \o env
\* the attributes under their universal names
Resolved(plain, env2) ==
    [k \in 1..Len(plain) |->
        [uri |-> IF plain[k].pfx = <<>> \/ ~Bound(env2, plain[k].pfx) THEN ""
                 ELSE Lookup(env2, plain[k].pfx),
         name |-> plain[k].name, val |-> plain[k].val]]

\* the end tag read: it must carry the name of the start tag
ElementClosed(t, i, q, e, c, cq) ==
    LET ce == SkipWS(t, cq.pos)
    IN  \* mismatched tag
        IF ~cq.ok \/ cq.pfx # q.pfx \/ cq.name # q.name THEN BadElement(i)
        ELSE IF ce > Len(t) \/ t[ce] # ">" THEN BadElement(i)
        ELSE [ok |-> TRUE, elem |-> [e EXCEPT !.text = c.text, !.kids = c.kids],
              pos |-> ce + 1]

\* the content read
ElementContent(t, i, q, e, c) ==
    IF ~c.ok THEN BadElement(i)
    ELSE ElementClosed(t, i, q, e, c, ParseQName(t, c.pos + 1))

\* the start tag read and its names resolved
ElementOpened(t, i, q, as, decls, plain, env2, attrs) ==
    LET raw == as.attrs
        e   == [uri |-> IF Bound(env2, q.pfx) THEN Lookup(env2, q.pfx) ELSE "",
                name |-> q.name, attrs |-> attrs,
                text |-> <<>>, kids |-> <<>>, tail |-> <<>>]
    IN  \* duplicate attribute
        IF \E k, m \in 1..Len(raw) : k < m /\ raw[k].pfx = raw[m].pfx
                                      /\ raw[k].name = raw[m].name THEN BadElement(i)
        \* a declaration without a URI
        ELSE IF \E k \in 1..Len(decls) : Len(decls[k].val) # 1 THEN BadElement(i)
        \* unbound prefix
        ELSE IF q.pfx # <<>> /\ ~Bound(env2, q.pfx) THEN BadElement(i)
        ELSE IF \E k \in 1..Len(plain) :
                    plain[k].pfx # <<>> /\ ~Bound(env2, plain[k].pfx) THEN BadElement(i)
        ELSE IF \E k, m \in 1..Len(attrs) : k < m /\ attrs[k].uri = attrs[m].uri
                                    /\ attrs[k].name = attrs[m].name THEN BadElement(i)
        ELSE IF as.close = "/>" THEN [ok |-> TRUE, elem |-> e, pos |-> as.pos]
        ELSE ElementContent(t, i, q, e, ParseContent(t, as.pos, env2, <<>>, <<>>))

ElementScoped(t, i, q, as, decls, plain, env2) ==
    ElementOpened(t, i, q, as, decls, plain, env2, Resolved(plain, env2))

ElementAttrs(t, i, env, q, as) ==
    IF ~as.ok THEN BadElement(i)
    ELSE ElementScoped(t, i, q, as, Decls(as.attrs), Plain(as.attrs),
                       Scope(Decls(as.attrs), env))

ElementNamed(t, i, env, q) ==
    IF ~q.ok THEN BadElement(i)
    ELSE ElementAttrs(t, i, env, q, ParseAttrs(t, q.pos, <<>>))

\* an element at position i (where a "<" is): [ok, elem, pos]
ParseElement(t, i, env) == ElementNamed(t, i, env, ParseQName(t, i + 1))

\* a child read
ContentChild(t, i, env, text, kids, sub) ==
    IF sub.ok THEN ParseContent(t, sub.pos, env, text, Append(kids, sub.elem))
    ELSE [ok |-> FALSE, text |-> text, kids |-> kids, pos |-> i]

\* a comment read: it is dropped
ContentComment(t, i, env, text, kids, ce) ==
    IF ce # 0 THEN ParseContent(t, ce, env, text, kids)
    ELSE [ok |-> FALSE, text |-> text, kids |-> kids, pos |-> i]

\* character data read: tk is <<text, kids>> with it added
ContentText(t, i, env, tk) == ParseContent(t, i, env, tk[1], tk[2])

\* the content of an element from position i up to its end tag (where a "</"
\* is): [ok, text, kids, pos]
ParseContent(t, i, env, text, kids) ==
    IF i > Len(t) THEN [ok |-> FALSE, text |-> text, kids |-> kids, pos |-> i]
    ELSE IF t[i] = "</" THEN [ok |-> TRUE, text |-> text, kids |-> kids, pos |-> i]
    ELSE IF t[i] = "<" THEN ContentChild(t, i, env, text, kids, ParseElement(t, i, env))
    ELSE IF t[i] = "<!--" THEN ContentComment(t, i, env, text, kids, CommentEnd(t, i))
    ELSE ContentText(t, i + RunLen(t, i, PlusNot(StartsLT)), env,
                     AddText(text, kids,
                             Unescape(SubSeq(t, i, i + RunLen(t, i, PlusNot(StartsLT)) - 1))))

RECURSIVE SkipMisc(_,_)
\* white space and comments outside the root element
SkipMisc(t, i) ==
    IF i > Len(t) THEN i
    ELSE IF t[i] \in WS THEN SkipMisc(t, i + 1)
    ELSE IF t[i] = "<!--" /\ CommentEnd(t, i) # 0
         THEN SkipMisc(t, CommentEnd(t, i))
    ELSE i

\* the root element read: nothing but white space and comments may follow
DocumentRoot(svg_str, r) ==
    IF ~r.ok THEN [ok |-> FALSE, root |-> NoElem]
    ELSE IF SkipMisc(svg_str, r.pos) # Len(svg_str) + 1
    THEN [ok |-> FALSE, root |-> NoElem]
    ELSE [ok |-> TRUE, root |-> r.elem]

DocumentFrom(svg_str, i) ==
    IF i > Len(svg_str) \/ svg_str[i] # "<" THEN [ok |-> FALSE, root |-> NoElem]
    ELSE DocumentRoot(svg_str, ParseElement(svg_str, i, <<>>))

\* ET.fromstring(svg_str): [ok, root]; ~ok is ET.ParseError
fromstring(svg_str) == DocumentFrom(svg_str, SkipMisc(svg_str, 1))

RECURSIVE QNameUris(_)
\* the namespace of every tag and attribute name, in the order ET._namespaces
\* meets them: an element's tag, its attributes, then its children
QNameUris(e) ==
    <<e.uri>> \o [k \in 1..Len(e.attrs) |-> e.attrs[k].uri]
    \o Flatten([k \in 1..Len(e.kids) |-> QNameUris(e.kids[k])])

RECURSIVE Dedup(_,_)
Dedup(s, seen) ==
    IF s = <<>> THEN <<>>
    ELSE IF Head(s) \in seen THEN Dedup(Tail(s), seen)
    ELSE <<Head(s)>> \o Dedup(Tail(s), seen \cup {Head(s)})

\* "ns%d" % len(namespaces)
NsPrefixes == <<"ns0", "ns1", "ns2">>
\* the namespaces of a tree, in the order of their prefixes
Namespaces(root) == Dedup(QNameUris(root), {""})
PrefixOf(nss, uri) == NsPrefixes[CHOOSE k \in 1..Len(nss) : nss[k] = uri]
QName(nss, uri, name) ==
    IF uri = "" THEN name ELSE <<PrefixOf(nss, uri), ":">> \o name

RECURSIVE SerializeElement(_,_,_)
\* ET._serialize_xml with short_empty_elements
SerializeElement(e, nss, isRoot) ==
    LET tag   == QName(nss, e.uri, e.name)
        decls == IF isRoot
                 THEN Flatten([k \in 1..Len(nss) |->
                        <<" ", "xmlns", ":", NsPrefixes[k], "=", DQ, nss[k], DQ>>])
                 ELSE <<>>
        attrs == Flatten([k \in 1..Len(e.attrs) |->
                    <<" ">> \o QName(nss, e.attrs[k].uri, e.attrs[k].name)
                    \o <<"=", DQ>> \o Escape(e.attrs[k].val) \o <<DQ>>])
        kids  == Flatten([k \in 1..Len(e.kids) |->
                            SerializeElement(e.kids[k], nss, FALSE)])
    IN  <<"<">> \o tag \o decls \o attrs
        \o (IF e.text # <<>> \/ e.kids # <<>>
            THEN <<">">> \o Escape(e.text) \o kids \o <<"</">> \o tag \o <<">">>
            ELSE <<" ", "/>">>)
        \o Escape(e.tail)

\* ET.tostring(root, encoding='unicode')
tostring(root) == SerializeElement(root, Namespaces(root), TRUE)

(***************************************************************************)
(* Trees: paths, searches, updates                                         *)
(***************************************************************************)
RECURSIVE Descendants(_,_)
\* the paths (child indexes from the root) of the descendants of e, in
\* document order; e itself, at path `at`, is not one of them
Descendants(e, at) ==
    Flatten([k \in 1..Len(e.kids) |->
                <<Append(at, k)>> \o Descendants(e.kids[k], Append(at, k))])

RECURSIVE NodeAt(_,_)
NodeAt(e, path) == IF path = <<>> THEN e ELSE NodeAt(e.kids[Head(path)], Tail(path))

RECURSIVE ReplaceAt(_,_,_)
ReplaceAt(e, path, new) ==
    IF path = <<>> THEN new
    ELSE [e EXCEPT !.kids[Head(path)] = ReplaceAt(@, Tail(path), new)]

\* elem.get(name): the value of the attribute without namespace, or <<>>
HasAttr(e, name) == \E k \in 1..Len(e.attrs) : e.attrs[k].uri = "" /\ e.attrs[k].name = name
GetAttr(e, name) ==
    IF HasAttr(e, name)
    THEN e.attrs[CHOOSE k \in 1..Len(e.attrs) :
                    e.attrs[k].uri = "" /\ e.attrs[k].name = name].val
    ELSE <<>>

\* root.findall(".//{http://www.w3.org/2000/svg}<name>"): paths in document order
FindAllSvg(root, names) ==
    LET ds == Descendants(root, <<>>)
    IN  Filter(ds, {k \in 1..Len(ds) :
                      NodeAt(root, ds[k]).uri = SVGNS /\ NodeAt(root, ds[k]).name \in names})

\* needle in haystack
Contains(hay, needle) ==
    \E k \in 0..(Len(hay) - Len(needle)) :
        \A m \in 1..Len(needle) : hay[k + m] = needle[m]

(***************************************************************************)
(* SanitizeUtils.remove_unused_defs                                        *)
(***************************************************************************)
IdName == <<"i", "d">>

\* what a try block comes to: the value it returns, or the exception raised
Return(value) == [raised |-> "none", value |-> value]
Raise(exc) == [raised |-> exc, value |-> <<>>]
\* no except clause
Except_nothing(attempt, caught, handler) == attempt

\* except <caught>: return <handler>
Except(attempt, caught, handler) ==
    IF attempt.raised \in caught THEN Return(handler) ELSE attempt
\* the statements after a call: skipped when the call raised
Then(attempt, Rest(_)) ==
    IF attempt.raised = "none" THEN Rest(attempt.value) ELSE attempt

\* the unused children of defs_elem removed, and the tree written out;
\* svg_text is the tree as written before the removal
PruneDefs(root, defs_at, defs_elem, svg_text) ==
    LET n == Len(defs_elem.kids)
        id_attr(k) == GetAttr(defs_elem.kids[k], IdName)
        used(def_id) ==
            \/ Contains(svg_text, <<"url(", "#">> \o def_id \o <<")">>)
            \/ Contains(svg_text, <<"href", "=", DQ, "#">> \o def_id \o <<DQ>>)
        kept == {k \in 1..n : ~(id_attr(k) # <<>> /\ ~used(id_attr(k)))}
    IN  Return(tostring(ReplaceAt(root, defs_at,
                                  [defs_elem EXCEPT !.kids = Filter(@, kept)])))

\* root.find(".//{http://www.w3.org/2000/svg}defs"): the first of found
FirstDefs(svg_str, root, found) ==
    IF found = <<>> THEN Return(svg_str)
    ELSE PruneDefs(root, found[1], NodeAt(root, found[1]), tostring(root))

PruneParsed(svg_str, parsed) ==
    IF ~parsed.ok THEN Raise("ParseError")
    ELSE FirstDefs(svg_str, parsed.root, FindAllSvg(parsed.root, {<<"defs">>}))

remove_unused_defs_try(svg_str) == PruneParsed(svg_str, fromstring(svg_str))

remove_unused_defs_call(svg_str) ==
    Except(remove_unused_defs_try(svg_str), {"ParseError"}, svg_str)
remove_unused_defs(svg_str) == remove_unused_defs_call(svg_str).value

(***************************************************************************)
(* CompetitionOptimizer: the stages                                        *)
(***************************************************************************)
AttrPattern(name, Val) ==
    <<Plus(WS)>> \o Lit(name \o <<"=", DQ>>) \o <<Val>> \o Lit(<<DQ>>)

_remove_unnecessary_attributes(svg_str) ==
    LET \* re.sub(r'\s+id="[^"]*"', '', svg_str)
        s1 == Remove(svg_str, AttrPattern(IdName, StarNot({DQ})))
        \* re.sub(r'\s+class="[^"]*"', '', svg_str)
        s2 == Remove(s1, AttrPattern(<<"class">>, StarNot({DQ})))
        \* the replacements, in order
        s3 == Remove(s2, Lit(<<"opacity", "=", DQ, "1", DQ>>))
        s4 == Remove(s3, Lit(<<"fill-", "opacity", "=", DQ, "1", DQ>>))
        s5 == Remove(s4, Lit(<<"stroke-", "opacity", "=", DQ, "1", DQ>>))
        s6 == Sub(s5, Lit(<<"stroke-", "width", "=", DQ, "1", DQ>>),
                  LAMBDA m : <<"stroke-", "width", "=", DQ, "1", DQ>>)
        s7 == Remove(s6, Lit(<<"stroke-", "linecap", "=", DQ, "butt", DQ>>))
    IN  Remove(s7, Lit(<<"stroke-", "linejoin", "=", DQ, "miter", DQ>>))

\* the attributes a style key is made of
StyleAttrs == {<<"fill">>, <<"stroke">>, <<"stroke-", "width">>, <<"opacity">>}
\* local names that end with "g", and with "defs"
EndsWithG == {<<"g">>, <<"svg">>}
EndsWithDefs == {<<"defs">>}

\* tuple(sorted(style_attrs.items())), as the set of its pairs
StyleKey(e) == {<<a, GetAttr(e, a)>> : a \in {b \in StyleAttrs : HasAttr(e, b)}}

\* elems: the places of the elements that have a style key
GroupStyled(root, elems) ==
    LET style_groups(key) ==
            {k \in 1..Len(elems) : StyleKey(NodeAt(root, elems[k])) = key}
    IN  \* elem.getparent() of the first element of the first group of three:
        \* xml.etree elements have none
        IF \E k \in 1..Len(elems) :
               Cardinality(style_groups(StyleKey(NodeAt(root, elems[k])))) >= 3
        THEN Raise("AttributeError")
        ELSE Return(tostring(root))

\* root.findall(".//{http://www.w3.org/2000/svg}*") less groups and defs
GroupElements(root, ds) ==
    GroupStyled(root, Filter(ds, {k \in 1..Len(ds) :
                                    /\ NodeAt(root, ds[k]).uri = SVGNS
                                    /\ NodeAt(root, ds[k]).name \notin EndsWithG
                                    /\ NodeAt(root, ds[k]).name \notin EndsWithDefs
                                    /\ StyleKey(NodeAt(root, ds[k])) # {}}))

GroupParsed(parsed) ==
    IF ~parsed.ok THEN Raise("ParseError")
    ELSE GroupElements(parsed.root, Descendants(parsed.root, <<>>))

_group_similar_elements_try(svg_str) == GroupParsed(fromstring(svg_str))

_group_similar_elements_call(svg_str) ==
    Except(_group_similar_elements_try(svg_str), {"ParseError", "AttributeError"}, svg_str)
_group_similar_elements(svg_str) == _group_similar_elements_call(svg_str).value

NonessentialFound(root, titles, groups) ==
    \* elem.getparent(): xml.etree elements have none
    IF titles # <<>> THEN Raise("AttributeError")
    ELSE IF \E k \in 1..Len(groups) : NodeAt(root, groups[k]).kids = <<>>
    THEN Raise("AttributeError")
    ELSE Return(tostring(root))

NonessentialParsed(parsed) ==
    IF ~parsed.ok THEN Raise("ParseError")
    ELSE NonessentialFound(parsed.root,
                           FindAllSvg(parsed.root, {<<"title">>})
                               \o FindAllSvg(parsed.root, {<<"desc">>}),
                           FindAllSvg(parsed.root, {<<"g">>}))

_remove_nonessential_elements_try(svg_str) == NonessentialParsed(fromstring(svg_str))

_remove_nonessential_elements_call(svg_str) ==
    Except(_remove_nonessential_elements_try(svg_str), {"ParseError", "AttributeError"}, svg_str)
_remove_nonessential_elements(svg_str) == _remove_nonessential_elements_call(svg_str).value

\* r'^[-+]?[0-9]*\.0+$'
WholeNumberPattern ==
    <<Opt({"-", "+"}), Star(Digits), One({"."}), Plus({"0"}), AtEnd>>

\* value.split('.')[0]
BeforeDot(value) ==
    SubSeq(value, 1, (CHOOSE k \in 1..Len(value) :
                        value[k] = "." /\ \A m \in 1..(k - 1) : value[m] # ".") - 1)

RECURSIVE TruncateWhole(_)
\* for elem in root.iter(): every attribute value that is a whole number
\* written with a fraction of zeros becomes the text before the point
TruncateWhole(e) ==
    [e EXCEPT
        !.attrs = [k \in 1..Len(e.attrs) |->
                    IF MatchAt(e.attrs[k].val, 1, WholeNumberPattern, 1) # 0
                    THEN [e.attrs[k] EXCEPT !.val = BeforeDot(@)]
                    ELSE e.attrs[k]],
        !.kids = [k \in 1..Len(e.kids) |-> TruncateWhole(e.kids[k])]]

MaximumParsed(parsed) ==
    IF ~parsed.ok THEN Raise("ParseError")
    \* the tree holds no comment or processing instruction: the parser
    \* drops them, so elem.getparent() is never reached
    ELSE Return(minify_svg(tostring(TruncateWhole(parsed.root))))

_optimize_maximum_try(svg_str) == MaximumParsed(fromstring(svg_str))

_optimize_maximum_call(svg_str) ==
    Except(_optimize_maximum_try(svg_str), {"ParseError", "AttributeError"}, svg_str)
_optimize_maximum(svg_str) == _optimize_maximum_call(svg_str).value

_optimize_level_1_call(svg_str) ==
    Then(remove_unused_defs_call(svg_str), LAMBDA r : Return(simplify_paths(r, 2)))
_optimize_level_2_call(svg_str) ==
    Return(_remove_unnecessary_attributes(simplify_paths(svg_str, 1)))
_optimize_level_3_call(svg_str) == _group_similar_elements_call(minify_svg(svg_str))
_optimize_level_4_call(svg_str) ==
    _remove_nonessential_elements_call(simplify_paths(svg_str, 0))

_optimize_level_1(svg_str) == _optimize_level_1_call(svg_str).value
_optimize_level_2(svg_str) == _optimize_level_2_call(svg_str).value
_optimize_level_3(svg_str) == _optimize_level_3_call(svg_str).value
_optimize_level_4(svg_str) == _optimize_level_4_call(svg_str).value

(***************************************************************************)
(* The documents the pipeline is run on: a root start tag, some of the     *)
(* fragments of Items in their order, and the root end tag.                *)
(***************************************************************************)
\* a document has at most MaxItems of the fragments
MaxItems == 2
\* a stage is called at most MaxCalls times, each time on the output of the
\* time before
MaxCalls == 2
\* the budgets are the first MaxBudgetSteps multiples of BudgetStep bytes
BudgetStep == 32
MaxBudgetSteps == 8

Heads ==
    {<<"<", "svg", " ", "xmlns", "=", DQ, SVGNS, DQ, ">">>,
     <<"<", "svg", " ", "xmlns", "=", DQ, SVGNS, DQ,
       " ", "xmlns", ":", "inkscape", "=", DQ, INKNS, DQ,
       " ", "inkscape", ":", "label", "=", DQ, "x", DQ,
       " ", "version", "=", DQ, "1", ".", "1", DQ, ">", "\n">>}

Items ==
    << \* a comment
       <<"<!--", "x", "-->">>,
       \* metadata
       <<"<", "metadata", ">", "x", "</", "metadata", ">">>,
       \* a definition that is referenced, and its reference
       <<"<", "defs", ">", "<", "linearGradient", " ", "i", "d", "=", DQ, "g", "2", DQ, "/>",
         "</", "defs", ">",
         "<", "rect", " ", "fill", "=", DQ, "url(", "#", "g", "2", ")", DQ, "/>">>,
       \* a definition that nothing references
       <<"<", "defs", ">", "<", "linearGradient", " ", "i", "d", "=", DQ, "g", "1", DQ, "/>",
         "</", "defs", ">">>,
       \* a path
       <<"<", "path", " ", "d", "=", DQ, "M", " ", "1", "0", ".", "1", "2", "6", ",",
         ".", "5", DQ, "/>">>,
       \* a whole number written with a fraction
       <<"<", "rect", " ", "x", "=", DQ, "1", ".", "0", DQ, "/>">>,
       \* two attributes, one at its default
       <<"<", "rect", " ", "fill", "=", DQ, "red", DQ, " ", "opacity", "=", DQ, "1", DQ, "/>">>,
       \* three elements of one style
       <<"<", "rect", " ", "fill", "=", DQ, "red", DQ, "/>",
         "<", "rect", " ", "fill", "=", DQ, "red", DQ, "/>",
         "<", "rect", " ", "fill", "=", DQ, "red", DQ, "/>">>,
       \* a title
       <<"<", "title", ">", "x", "</", "title", ">">>,
       \* character data that reads like editor attributes
       <<"<", "text", ">", " ", "dc", ":", "i", " ", "dc", ":", "d", "=", DQ, "x", DQ,
         "=", DQ, "é", DQ, "</", "text", ">">>,
       \* a start tag without its end tag: the document is not well-formed
       <<"<", "g", ">">> >>

Bodies == {S \in SUBSET (1..Len(Items)) : Cardinality(S) <= MaxItems}
BodyText(S) == Flatten([k \in 1..Len(Items) |-> IF k \in S THEN Items[k] ELSE <<>>])
Docs == {h \o BodyText(S) \o <<"</", "svg", ">">> : h \in Heads, S \in Bodies}

\* the budgets (max_size_kb), as counts of 1/KbDen KB
Budgets == {BudgetStep * k : k \in 1..MaxBudgetSteps}
\* def __init__(self, max_size_kb: float = 10.0)
DefaultMaxSizeKb == 10 * KbDen

(***************************************************************************)
(* The state: a client holds a document and calls the stages and the two   *)
(* pipelines on it.                                                        *)
(***************************************************************************)
VARIABLES
    origin,       \* the document the client started with
    doc,          \* the document the client holds
    max_size_kb,  \* self.max_size_kb of the optimizer, or the budget passed
    pc,           \* where the call in progress stands, "idle" between calls
    cur,          \* the operation called last
    input,        \* the text it was called on
    result,       \* the local variable result of the pipeline in progress
    level,        \* the index into optimization_levels of the for loop
    trace,        \* the stages the pipeline in progress has applied, with
                  \* the text each produced and what validate_size said of it
    ret,          \* what the last call returned, or the exception it raised
    calls,        \* the number of calls that have returned
    elements,     \* the ET.Element objects of a scene, by the order of their
                  \* creation; the children of an element are such numbers
    generator,    \* the ConstrainedGenerator of a scene
    layer_manager \* the LayerManager of a scene

vars == <<origin, doc, max_size_kb, pc, cur, input, result, level, trace, ret, calls,
          elements, generator, layer_manager>>

\* no scene: the documents are texts
NoScene == elements = <<>> /\ generator = <<>> /\ layer_manager = <<>>

\* the first two levels in the other order
optimization_levels_swapped ==
    <<"_optimize_level_2", "_optimize_level_1", "_optimize_level_3", "_optimize_level_4">>

\* optimization_levels of optimize
optimization_levels ==
    <<"_optimize_level_1", "_optimize_level_2", "_optimize_level_3", "_optimize_level_4">>

optimize_func(name, svg_str) ==
    CASE name = "_optimize_level_1" -> _optimize_level_1_call(svg_str)
      [] name = "_optimize_level_2" -> _optimize_level_2_call(svg_str)
      [] name = "_optimize_level_3" -> _optimize_level_3_call(svg_str)
      [] name = "_optimize_level_4" -> _optimize_level_4_call(svg_str)

\* is_valid, size_kb = validate_size(svg_str, budget) after a stage
Checked(stage, svg_str, budget) ==
    [stage |-> stage, text |-> svg_str,
     is_valid |-> validate_size(svg_str, budget).is_valid,
     size_kb |-> validate_size(svg_str, budget).size_kb]

Init ==
    /\ origin \in Docs
    /\ doc = origin
    /\ max_size_kb = DefaultMaxSizeKb
    /\ pc = "idle"
    /\ cur = "none"
    /\ input = <<>>
    /\ result = <<>>
    /\ level = 0
    /\ trace = <<>>
    /\ ret = [raised |-> "none"]
    /\ calls = 0
    /\ NoScene

\* a stage called alone: on the client's document, then again on what it
\* returned
CanCall(name) == pc = "idle" /\ calls < MaxCalls /\ (calls = 0 \/ cur = name)

\* what the caller gets from an attempt: its value, or the exception
Outcome(attempt) ==
    IF attempt.raised = "none" THEN [raised |-> "none", text |-> attempt.value]
    ELSE [raised |-> attempt.raised]

StageCall(name, attempt) ==
    /\ CanCall(name)
    /\ cur' = name
    /\ input' = doc
    /\ ret' = Outcome(attempt)
    /\ doc' = IF attempt.raised = "none" THEN attempt.value ELSE doc
    /\ calls' = calls + 1
    /\ UNCHANGED <<elements, generator, layer_manager, origin, max_size_kb, pc, result, level, trace>>

call_remove_metadata == StageCall("remove_metadata", Return(remove_metadata(doc)))
call_minify_svg == StageCall("minify_svg", Return(minify_svg(doc)))
call_simplify_paths ==
    \E precision \in 0..2 :
        /\ calls = 0 \/ precision = 1
        /\ StageCall("simplify_paths", Return(simplify_paths(doc, precision)))
call_remove_unused_defs == StageCall("remove_unused_defs", remove_unused_defs_call(doc))
call_remove_unnecessary_attributes ==
    StageCall("_remove_unnecessary_attributes", Return(_remove_unnecessary_attributes(doc)))
call_group_similar_elements ==
    StageCall("_group_similar_elements", _group_similar_elements_call(doc))
call_remove_nonessential_elements ==
    StageCall("_remove_nonessential_elements", _remove_nonessential_elements_call(doc))
call_optimize_maximum == StageCall("_optimize_maximum", _optimize_maximum_call(doc))

\* SanitizeUtils.validate_size(doc, budget)
call_validate_size ==
    \E budget \in Budgets :
        /\ pc = "idle" /\ calls = 0
        /\ cur' = "validate_size"
        /\ input' = doc
        /\ max_size_kb' = budget
        /\ ret' = [raised |-> "none"] @@ validate_size(doc, budget)
        /\ calls' = calls + 1
        /\ UNCHANGED <<elements, generator, layer_manager, origin, doc, pc, result, level, trace>>

\* return from a pipeline, or an exception out of it
PipelineReturn(value) ==
    /\ ret' = value
    /\ pc' = "idle"
    /\ calls' = calls + 1

\* an exception for a result over the budget
OptimizeReturn_raising(c) ==
    IF c.is_valid
    THEN PipelineReturn([raised |-> "none", text |-> c.text, size_kb |-> c.size_kb])
    ELSE PipelineReturn([raised |-> "BudgetExceeded"])

\* return result, size_kb
OptimizeReturn(c) ==
    PipelineReturn([raised |-> "none", text |-> c.text, size_kb |-> c.size_kb])

\* optimize, to the first check; c is the sanitizer's output, checked
OptimizeBegun(budget, c) ==
    /\ cur' = "optimize"
    /\ input' = doc
    /\ max_size_kb' = budget
    /\ result' = c.text
    /\ trace' = <<c>>
    /\ level' = 1
    /\ IF c.is_valid
       THEN OptimizeReturn(c)
       ELSE pc' = "optimize_loop" /\ UNCHANGED <<ret, calls>>
    /\ UNCHANGED <<elements, generator, layer_manager, origin, doc>>

\* CompetitionOptimizer(budget).optimize(doc)
optimize_begin ==
    \E budget \in Budgets :
        /\ pc = "idle" /\ calls = 0
        /\ OptimizeBegun(budget, Checked("remove_metadata", remove_metadata(doc), budget))

\* a loop that tries the same level again
OptimizeLevelDone_again(name, attempt) ==
    /\ result' = attempt.value
    /\ trace' = Append(trace, Checked(name, attempt.value, max_size_kb))
    /\ level' = level
    /\ IF validate_size(attempt.value, max_size_kb).is_valid
       THEN OptimizeReturn(Checked(name, attempt.value, max_size_kb))
       ELSE UNCHANGED <<pc, ret, calls>>
    /\ UNCHANGED <<elements, generator, layer_manager, origin, doc, max_size_kb, cur, input>>

\* one turn of the loop; attempt is what the level came to
OptimizeLevelDone(name, attempt) ==
    /\ IF attempt.raised # "none"
       THEN /\ PipelineReturn(Outcome(attempt))
            /\ UNCHANGED <<result, trace, level>>
       ELSE /\ result' = attempt.value
            /\ trace' = Append(trace, Checked(name, attempt.value, max_size_kb))
            /\ level' = level + 1
            /\ IF validate_size(attempt.value, max_size_kb).is_valid
               THEN OptimizeReturn(Checked(name, attempt.value, max_size_kb))
               ELSE UNCHANGED <<pc, ret, calls>>
    /\ UNCHANGED <<elements, generator, layer_manager, origin, doc, max_size_kb, cur, input>>

\* for optimize_func in optimization_levels
optimize_level ==
    /\ pc = "optimize_loop"
    /\ level <= Len(optimization_levels)
    /\ OptimizeLevelDone(optimization_levels[level],
                         optimize_func(optimization_levels[level], result))

\* the size measured before _optimize_maximum returned with its output
OptimizeMaximumDone_stale(attempt) ==
    /\ result' = attempt.value
    /\ trace' = Append(trace, Checked("_optimize_maximum", attempt.value, max_size_kb))
    /\ PipelineReturn([raised |-> "none", text |-> attempt.value,
                       size_kb |-> trace[Len(trace)].size_kb])
    /\ UNCHANGED <<elements, generator, layer_manager, origin, doc, max_size_kb, cur, input, level>>

OptimizeMaximumDone(attempt) ==
    /\ IF attempt.raised # "none"
       THEN /\ PipelineReturn(Outcome(attempt))
            /\ UNCHANGED <<result, trace>>
       ELSE /\ result' = attempt.value
            /\ trace' = Append(trace, Checked("_optimize_maximum", attempt.value,
                                              max_size_kb))
            /\ OptimizeReturn(Checked("_optimize_maximum", attempt.value, max_size_kb))
    /\ UNCHANGED <<elements, generator, layer_manager, origin, doc, max_size_kb, cur, input, level>>

\* the loop is over: _optimize_maximum, the last measure, return
optimize_maximum ==
    /\ pc = "optimize_loop"
    /\ level > Len(optimization_levels)
    /\ OptimizeMaximumDone(_optimize_maximum_call(result))

\* return result
EnsureReturn(svg_str) == PipelineReturn([raised |-> "none", text |-> svg_str])

EnsureBegun(budget, c) ==
    /\ cur' = "ensure_compliance"
    /\ input' = doc
    /\ max_size_kb' = budget
    /\ result' = c.text
    /\ trace' = <<c>>
    /\ IF c.is_valid
       THEN EnsureReturn(c.text)
       ELSE pc' = "ensure_aggressive" /\ UNCHANGED <<ret, calls>>
    /\ UNCHANGED <<elements, generator, layer_manager, origin, doc, level>>

\* SanitizeUtils.ensure_compliance(doc, budget), to the first check
ensure_compliance_begin ==
    \E budget \in Budgets :
        /\ pc = "idle" /\ calls = 0
        /\ EnsureBegun(budget, Checked("remove_metadata", remove_metadata(doc), budget))

EnsureAggressiveDone(attempt) ==
    /\ IF attempt.raised # "none"
       THEN /\ PipelineReturn(Outcome(attempt))
            /\ UNCHANGED <<result, trace>>
       ELSE /\ result' = attempt.value
            /\ trace' = Append(trace, Checked("aggressive", attempt.value, max_size_kb))
            /\ IF validate_size(attempt.value, max_size_kb).is_valid
               THEN EnsureReturn(attempt.value)
               ELSE pc' = "ensure_extreme" /\ UNCHANGED <<ret, calls>>
    /\ UNCHANGED <<elements, generator, layer_manager, origin, doc, max_size_kb, cur, input, level>>

\* "Apply more aggressive optimizations", to the second check
ensure_compliance_aggressive ==
    /\ pc = "ensure_aggressive"
    /\ EnsureAggressiveDone(Then(remove_unused_defs_call(result),
                                 LAMBDA r : Return(simplify_paths(r, 1))))

\* an exception for a third text over the budget
EnsureExtremeDone_raising(svg_str) ==
    /\ result' = svg_str
    /\ trace' = Append(trace, Checked("extreme", svg_str, max_size_kb))
    /\ IF validate_size(svg_str, max_size_kb).is_valid
       THEN EnsureReturn(svg_str)
       ELSE PipelineReturn([raised |-> "BudgetExceeded"])
    /\ UNCHANGED <<elements, generator, layer_manager, origin, doc, max_size_kb, cur, input, level>>

EnsureExtremeDone(svg_str) ==
    /\ result' = svg_str
    /\ trace' = Append(trace, Checked("extreme", svg_str, max_size_kb))
    /\ EnsureReturn(svg_str)
    /\ UNCHANGED <<elements, generator, layer_manager, origin, doc, max_size_kb, cur, input, level>>

\* "Apply extreme optimization", the final check, return
ensure_compliance_extreme ==
    /\ pc = "ensure_extreme"
    /\ EnsureExtremeDone(simplify_paths(minify_svg(result), 0))

Next ==
    \/ call_remove_metadata
    \/ call_minify_svg
    \/ call_simplify_paths
    \/ call_remove_unused_defs
    \/ call_remove_unnecessary_attributes
    \/ call_group_similar_elements
    \/ call_remove_nonessential_elements
    \/ call_optimize_maximum
    \/ call_validate_size
    \/ optimize_begin
    \/ optimize_level
    \/ optimize_maximum
    \/ ensure_compliance_begin
    \/ ensure_compliance_aggressive
    \/ ensure_compliance_extreme

Spec == Init /\ [][Next]_vars

\* where a call can be: between calls, in the loop of optimize, before the
\* second and before the third stage of ensure_compliance
ControlPoints == {"idle", "optimize_loop", "ensure_aggressive", "ensure_extreme"}

control == <<pc, level>>

\* Control moves on. Every step of a call is defined on every state and is
\* enabled whenever control is at it, and it changes pc or level; Proceed is
\* what those steps do to control.
Proceed ==
    /\ pc # "idle"
    /\ pc' \in ControlPoints
    /\ level' \in 0..(Len(optimization_levels) + 1)

\* a call in progress is run on: the interpreter does not abandon it
FairSpec == Spec /\ WF_control(Proceed)

(***************************************************************************)
(* The stages called alone, on more documents: those of Docs and those     *)
(* made with the fragments below as well.                                  *)
(***************************************************************************)
StageItems ==
    Items \o
    << \* metadata whose start tag has an attribute
       <<"<", "metadata", " ", "i", "d", "=", DQ, "x", DQ, ">", "x", "</", "metadata", ">">>,
       \* an attribute value that ends like the start of an editor attribute
       <<"<", "rect", " ", "i", "d", "=", DQ, "x", " ", "dc", ":", "d", "=", DQ,
         " ", "x", "=", DQ, "1", DQ, "/>">>,
       \* an id with a number in it, and two numbers of a path with nothing
       \* between them
       <<"<", "path", " ", "i", "d", "=", DQ, "g", "0", "1", DQ,
         " ", "d", "=", DQ, "M", "1", ".", "5", ".", "5", DQ, "/>">>,
       \* a whole number with no digit before the point
       <<"<", "rect", " ", "x", "=", DQ, ".", "0", DQ, "/>">>,
       \* an attribute at its default whose name ends with the name of another
       <<"<", "rect", " ", "fill-", "opacity", "=", DQ, "1", DQ, "/>">>,
       \* a definition that only a definition nothing references refers to
       <<"<", "defs", ">", "<", "linearGradient", " ", "i", "d", "=", DQ, "g", "3", DQ, "/>",
         "<", "linearGradient", " ", "i", "d", "=", DQ, "g", "4", DQ,
         " ", "href", "=", DQ, "#", "g", "3", DQ, "/>", "</", "defs", ">">> >>

StageBodies == {S \in SUBSET (1..Len(StageItems)) : Cardinality(S) <= MaxItems}
StageBodyText(S) ==
    Flatten([k \in 1..Len(StageItems) |-> IF k \in S THEN StageItems[k] ELSE <<>>])
StageDocs ==
    {h \o StageBodyText(S) \o <<"</", "svg", ">">> : h \in Heads, S \in StageBodies}

StageInit ==
    /\ origin \in StageDocs
    /\ doc = origin
    /\ max_size_kb = DefaultMaxSizeKb
    /\ pc = "idle"
    /\ cur = "none"
    /\ input = <<>>
    /\ result = <<>>
    /\ level = 0
    /\ trace = <<>>
    /\ ret = [raised |-> "none"]
    /\ calls = 0
    /\ NoScene

StageNext ==
    \/ call_remove_metadata
    \/ call_minify_svg
    \/ call_simplify_paths
    \/ call_remove_unused_defs
    \/ call_remove_unnecessary_attributes
    \/ call_group_similar_elements
    \/ call_remove_nonessential_elements
    \/ call_optimize_maximum
    \/ call_validate_size

StageSpec == StageInit /\ [][StageNext]_vars

(***************************************************************************)
(* Two invocations on one CompetitionOptimizer.  Each thread calls         *)
(* optimize or ensure_compliance once, on its own document; svg_str,       *)
(* result, the loop index and the flag and size of a check are locals of   *)
(* the call, so pc, cur, input, result, level, trace and ret are one per   *)
(* thread here; self.max_size_kb is the one field the calls share.  A      *)
(* thread is switched between two stages: a stage reads and writes locals  *)
(* only.                                                                   *)
(***************************************************************************)
Threads == {"a", "b"}
ConcBodies == {{4, 5}, {4, 7}}
ConcDocs ==
    {h \o BodyText(S) \o <<"</", "svg", ">">> :
        h \in {g \in Heads : \A k \in 1..Len(g) : g[k] # "version"}, S \in ConcBodies}
ConcBudgets == {BudgetStep * k : k \in 2..4}

ConcInit ==
    /\ origin \in [Threads -> ConcDocs]
    /\ doc = origin
    \* CompetitionOptimizer(max_size_kb)
    /\ max_size_kb \in ConcBudgets
    /\ pc = [t \in Threads |-> "idle"]
    /\ cur = [t \in Threads |-> "none"]
    /\ input = [t \in Threads |-> <<>>]
    /\ result = [t \in Threads |-> <<>>]
    /\ level = [t \in Threads |-> 0]
    /\ trace = [t \in Threads |-> <<>>]
    /\ ret = [t \in Threads |-> [raised |-> "none"]]
    /\ calls = 0
    /\ NoScene

\* the locals of the call of thread t
Frame(t) ==
    [pc |-> pc[t], cur |-> cur[t], input |-> input[t], result |-> result[t],
     level |-> level[t], trace |-> trace[t], ret |-> ret[t]]

\* the threads other than t that are inside a call
Running(t) == {u \in Threads \ {t} : pc[u] \notin {"idle", "returned"}}

\* the result kept on the optimizer, where every call reads it
Resumed_shared(t, f) ==
    /\ pc' = [pc EXCEPT ![t] = f.pc]
    /\ cur' = [cur EXCEPT ![t] = f.cur]
    /\ input' = [input EXCEPT ![t] = f.input]
    /\ result' = [u \in Threads |-> f.result]
    /\ level' = [level EXCEPT ![t] = f.level]
    /\ trace' = [trace EXCEPT ![t] = f.trace]
    /\ ret' = [ret EXCEPT ![t] = f.ret]
    /\ calls' = IF f.pc = "returned" THEN calls + 1 ELSE calls
    /\ UNCHANGED <<elements, generator, layer_manager, origin, doc, max_size_kb>>

\* thread t goes on with the locals f: no assignment of optimize or of
\* ensure_compliance is to self or to a global
Resumed(t, f) ==
    /\ pc' = [pc EXCEPT ![t] = f.pc]
    /\ cur' = [cur EXCEPT ![t] = f.cur]
    /\ input' = [input EXCEPT ![t] = f.input]
    /\ result' = [result EXCEPT ![t] = f.result]
    /\ level' = [level EXCEPT ![t] = f.level]
    /\ trace' = [trace EXCEPT ![t] = f.trace]
    /\ ret' = [ret EXCEPT ![t] = f.ret]
    /\ calls' = IF f.pc = "returned" THEN calls + 1 ELSE calls
    /\ UNCHANGED <<elements, generator, layer_manager, origin, doc, max_size_kb>>

\* return value
Returning(f, value) == [f EXCEPT !.pc = "returned", !.ret = value]

\* result = ...; is_valid, size_kb = validate_size(result, ...), seen
\* while the threads of during were inside a call
Measured(f, c, during) ==
    [f EXCEPT !.result = c.text, !.trace = Append(@, c @@ [during |-> during])]

\* if is_valid: return result, size_kb
OptimizeChecked(f, c) ==
    IF c.is_valid
    THEN Returning(f, [raised |-> "none", text |-> c.text, size_kb |-> c.size_kb])
    ELSE f

\* optimize(svg_str), to the first check
thread_optimize_begin(t) ==
    /\ pc[t] = "idle"
    /\ Resumed(t, OptimizeChecked(
                      Measured([Frame(t) EXCEPT !.pc = "optimize_loop", !.cur = "optimize",
                                                !.input = [svg_str |-> doc[t]],
                                                !.level = 1],
                               Checked("remove_metadata", remove_metadata(doc[t]),
                                       max_size_kb),
                               Running(t)),
                      Checked("remove_metadata", remove_metadata(doc[t]), max_size_kb)))

ThreadLevelDone(t, name, attempt) ==
    Resumed(t, IF attempt.raised # "none"
               THEN Returning(Frame(t), Outcome(attempt))
               ELSE OptimizeChecked(
                        Measured([Frame(t) EXCEPT !.level = @ + 1],
                                 Checked(name, attempt.value, max_size_kb), Running(t)),
                        Checked(name, attempt.value, max_size_kb)))

\* for optimize_func in optimization_levels
thread_optimize_level(t) ==
    /\ pc[t] = "optimize_loop"
    /\ level[t] <= Len(optimization_levels)
    /\ ThreadLevelDone(t, optimization_levels[level[t]],
                       optimize_func(optimization_levels[level[t]], result[t]))

ThreadMaximumDone(t, attempt) ==
    Resumed(t, IF attempt.raised # "none"
               THEN Returning(Frame(t), Outcome(attempt))
               ELSE Returning(
                        Measured(Frame(t),
                                 Checked("_optimize_maximum", attempt.value, max_size_kb),
                                 Running(t)),
                        [raised |-> "none", text |-> attempt.value,
                         size_kb |-> validate_size(attempt.value, max_size_kb).size_kb]))

\* the loop is over: _optimize_maximum, the last measure, return
thread_optimize_maximum(t) ==
    /\ pc[t] = "optimize_loop"
    /\ level[t] > Len(optimization_levels)
    /\ ThreadMaximumDone(t, _optimize_maximum_call(result[t]))

\* if is_valid: return result
EnsureChecked(f, c, after) ==
    IF c.is_valid \/ after = "returned"
    THEN Returning(f, [raised |-> "none", text |-> c.text])
    ELSE [f EXCEPT !.pc = after]

\* SanitizeUtils.ensure_compliance(svg_str, budget), to the first check
thread_ensure_compliance_begin(t) ==
    \E budget \in ConcBudgets :
        /\ pc[t] = "idle"
        /\ Resumed(t, EnsureChecked(
                          Measured([Frame(t) EXCEPT
                                       !.cur = "ensure_compliance",
                                       !.input = [svg_str |-> doc[t], max_size_kb |-> budget]],
                                   Checked("remove_metadata", remove_metadata(doc[t]), budget),
                                   Running(t)),
                          Checked("remove_metadata", remove_metadata(doc[t]), budget),
                          "ensure_aggressive"))

ThreadEnsureDone(t, stage, attempt, after) ==
    Resumed(t, IF attempt.raised # "none"
               THEN Returning(Frame(t), Outcome(attempt))
               ELSE EnsureChecked(
                        Measured(Frame(t),
                                 Checked(stage, attempt.value, input[t].max_size_kb),
                                 Running(t)),
                        Checked(stage, attempt.value, input[t].max_size_kb), after))

\* "Apply more aggressive optimizations", to the second check
thread_ensure_compliance_aggressive(t) ==
    /\ pc[t] = "ensure_aggressive"
    /\ ThreadEnsureDone(t, "aggressive",
                        Then(remove_unused_defs_call(result[t]),
                             LAMBDA r : Return(simplify_paths(r, 1))),
                        "ensure_extreme")

\* "Apply extreme optimization", the final check, return
thread_ensure_compliance_extreme(t) ==
    /\ pc[t] = "ensure_extreme"
    /\ ThreadEnsureDone(t, "extreme",
                        Return(simplify_paths(minify_svg(result[t]), 0)), "returned")

ConcNext ==
    \/ \E t \in Threads : thread_optimize_begin(t)
    \/ \E t \in Threads : thread_optimize_level(t)
    \/ \E t \in Threads : thread_optimize_maximum(t)
    \/ \E t \in Threads : thread_ensure_compliance_begin(t)
    \/ \E t \in Threads : thread_ensure_compliance_aggressive(t)
    \/ \E t \in Threads : thread_ensure_compliance_extreme(t)

ConcSpec == ConcInit /\ [][ConcNext]_vars

(***************************************************************************)
(* ElementFactory.  A Python value is an int or a str; a dict is the       *)
(* sequence of its items, in insertion order.                              *)
(***************************************************************************)
\* str(value)
str(value) ==
    IF "int" \in DOMAIN value
    THEN IF value.int < 0 THEN <<"-">> \o NatToDigits(-value.int) ELSE NatToDigits(value.int)
    ELSE value.str

HasKey(dict, key) == \E k \in 1..Len(dict) : dict[k].key = key
\* dict[key] = value: in the place of the key, or after the last item
SetItem(dict, key, value) ==
    IF HasKey(dict, key)
    THEN [k \in 1..Len(dict) |-> IF dict[k].key = key THEN [dict[k] EXCEPT !.value = value]
                                 ELSE dict[k]]
    ELSE Append(dict, [key |-> key, value |-> value])
RECURSIVE update(_, _)
\* dict.update(other)
update(dict, other) ==
    IF other = <<>> THEN dict
    ELSE update(SetItem(dict, Head(other).key, Head(other).value), Tail(other))

\* ET.Element(tag)
Element(tag) == [NoElem EXCEPT !.name = tag]
\* element.set(key, value)
set(element, key, value) ==
    [element EXCEPT !.attrs =
        IF HasAttr(element, key)
        THEN [k \in 1..Len(@) |-> IF @[k].uri = "" /\ @[k].name = key
                                  THEN [@[k] EXCEPT !.val = value] ELSE @[k]]
        ELSE Append(@, [uri |-> "", name |-> key, val |-> value])]
RECURSIVE SetAll(_, _)
\* for key, value in attributes.items(): element.set(key, str(value))
SetAll(element, attributes) ==
    IF attributes = <<>> THEN element
    ELSE SetAll(set(element, Head(attributes).key, str(Head(attributes).value)),
                Tail(attributes))

\* ElementFactory.create(element_type, **attributes)
create(element_type, attributes) == tostring(SetAll(Element(element_type), attributes))

create_circle(cx, cy, radius, attributes) ==
    create(<<"circle">>,
           update(attributes,
                  <<[key |-> <<"cx">>, value |-> cx], [key |-> <<"cy">>, value |-> cy],
                    [key |-> <<"r">>, value |-> radius]>>))

create_rectangle(x, y, width, height, attributes) ==
    create(<<"rect">>,
           update(attributes,
                  <<[key |-> <<"x">>, value |-> x], [key |-> <<"y">>, value |-> y],
                    [key |-> <<"width">>, value |-> width],
                    [key |-> <<"height">>, value |-> height]>>))

create_line(x1, y1, x2, y2, attributes) ==
    create(<<"line">>,
           update(attributes,
                  <<[key |-> <<"x", "1">>, value |-> x1], [key |-> <<"y", "1">>, value |-> y1],
                    [key |-> <<"x", "2">>, value |-> x2],
                    [key |-> <<"y", "2">>, value |-> y2]>>))

create_path(d, attributes) ==
    create(<<"path">>, update(attributes, <<[key |-> <<"d">>, value |-> d]>>))

create_text(x, y, text, attributes) ==
    tostring([SetAll(Element(<<"text">>),
                     update(attributes, <<[key |-> <<"x">>, value |-> x],
                                          [key |-> <<"y">>, value |-> y]>>))
                 EXCEPT !.text = text])

\* the arguments of the calls
Numbers == {[int |-> 0], [int |-> 100], [int |-> -5]}
Keywords ==
    {<<>>,
     <<[key |-> <<"fill">>, value |-> [str |-> <<"red">>]]>>,
     <<[key |-> <<"stroke">>, value |-> [str |-> <<"red">>]],
       [key |-> <<"stroke", "_", "width">>, value |-> [int |-> 2]]>>,
     <<[key |-> <<"r">>, value |-> [int |-> 7]]>>}
PathTexts == {<<"M", " ", "1", "0", ",", ".", "5">>, <<"M", "0", " ", "0">>}
Contents == {<<"x">>, <<"x", " ", ">", " ", "y">>}

FactoryInit ==
    /\ origin = <<>>
    /\ doc = <<>>
    /\ max_size_kb = DefaultMaxSizeKb
    /\ pc = "idle"
    /\ cur = "none"
    /\ input = <<>>
    /\ result = <<>>
    /\ level = 0
    /\ trace = <<>>
    /\ ret = [raised |-> "none"]
    /\ calls = 0
    /\ NoScene

\* a creator called with the arguments args, the last of them **attributes
FactoryCall(name, args, text) ==
    /\ calls = 0
    /\ cur' = name
    /\ input' = args
    /\ ret' = [raised |-> "none", text |-> text]
    /\ calls' = calls + 1
    /\ UNCHANGED <<elements, generator, layer_manager, origin, doc, max_size_kb, pc, result, level, trace>>

call_create_circle ==
    \E cx \in Numbers, cy \in Numbers, radius \in Numbers, attributes \in Keywords :
        FactoryCall("create_circle", <<cx, cy, radius, attributes>>,
                    create_circle(cx, cy, radius, attributes))
call_create_rectangle ==
    \E x \in Numbers, y \in Numbers, width \in Numbers, height \in Numbers,
       attributes \in Keywords :
        FactoryCall("create_rectangle", <<x, y, width, height, attributes>>,
                    create_rectangle(x, y, width, height, attributes))
call_create_line ==
    \E x1 \in Numbers, y1 \in Numbers, x2 \in Numbers, y2 \in Numbers,
       attributes \in Keywords :
        FactoryCall("create_line", <<x1, y1, x2, y2, attributes>>,
                    create_line(x1, y1, x2, y2, attributes))
call_create_path ==
    \E d \in PathTexts, attributes \in Keywords :
        FactoryCall("create_path", <<[str |-> d], attributes>>,
                    create_path([str |-> d], attributes))
call_create_text ==
    \E x \in Numbers, y \in Numbers, text \in Contents, attributes \in Keywords :
        FactoryCall("create_text", <<x, y, [str |-> text], attributes>>,
                    create_text(x, y, text, attributes))

FactoryNext ==
    \/ call_create_circle
    \/ call_create_rectangle
    \/ call_create_line
    \/ call_create_path
    \/ call_create_text

FactorySpec == FactoryInit /\ [][FactoryNext]_vars

(***************************************************************************)
(* Scenes.  The ET.Element objects of a scene are numbered by the order of *)
(* their creation, elements[h] is the object h and its kids are numbers:   *)
(* two places can hold the same object.  A scene is the three variables    *)
(* elements, generator and layer_manager taken together; a method is an    *)
(* operator from the scene before the call to the scene after it and the   *)
(* value returned.                                                         *)
(***************************************************************************)
None == [none |-> TRUE]
IsNone(value) == "none" \in DOMAIN value

Scene == [elements |-> elements, generator |-> generator, layer_manager |-> layer_manager]
Returns(sc, value) == [scene |-> sc, ret |-> Return(value)]

\* dict[key], dict.pop(key, None), dict.keys()
GetItem(dict, key) == dict[CHOOSE k \in 1..Len(dict) : dict[k].key = key].value
pop(dict, key) == Filter(dict, {k \in 1..Len(dict) : dict[k].key # key})
keys(dict) == [k \in 1..Len(dict) |-> dict[k].key]

\* ET.SubElement(parent, tag) with the attributes set on it: the new object
\* is the last one
SubElement(objs, parent, tag, attributes) ==
    Append([objs EXCEPT ![parent].kids = Append(@, Len(objs) + 1)],
           SetAll(Element(tag), attributes))

RECURSIVE TreeOf(_, _)
\* the tree under an object, as the serializer walks it
TreeOf(objs, h) ==
    [objs[h] EXCEPT !.kids = [k \in 1..Len(@) |-> TreeOf(objs, @[k])]]

\* ConstrainedGenerator.__init__: the root is the object 1
ConstrainedGenerator(size, limit) ==
    [elements |-> <<set(Element(<<"svg">>), <<"xmlns">>, <<SVGNS>>)>>,
     generator |-> [max_size_kb |-> size, max_elements |-> limit, root |-> 1,
                    element_count |-> 0],
     layer_manager |-> <<>>]

\* ConstrainedGenerator.add_element without its first two lines
add_element_unlimited(sc, element_type, attributes) ==
    Returns([sc EXCEPT !.elements = SubElement(@, sc.generator.root, element_type, attributes),
                       !.generator.element_count = @ + 1],
            [element |-> Len(sc.elements) + 1])

\* ConstrainedGenerator.add_element
add_element(sc, element_type, attributes) ==
    IF sc.generator.element_count >= sc.generator.max_elements
    THEN Returns(sc, None)
    ELSE Returns([sc EXCEPT !.elements = SubElement(@, sc.generator.root, element_type,
                                                    attributes),
                            !.generator.element_count = @ + 1],
                 [element |-> Len(sc.elements) + 1])

RECURSIVE AddEach(_, _, _)
\* the loop of add_elements
AddEach(sc, data, added) ==
    IF data = <<>> THEN Returns(sc, [int |-> added])
    ELSE LET element_data == Head(data)
             out == add_element(sc, element_data.type,
                                IF "attributes" \in DOMAIN element_data
                                THEN element_data.attributes ELSE <<>>)
         IN  AddEach(out.scene, Tail(data),
                     IF IsNone(out.ret.value) THEN added ELSE added + 1)

\* ConstrainedGenerator.add_elements
add_elements(sc, data) == AddEach(sc, data, 0)

\* ConstrainedGenerator.to_string
to_string(sc) == tostring(TreeOf(sc.elements, sc.generator.root))

\* the arguments of the calls
MaxElements == 3
ElementLimits == 1..MaxElements
MaxNodes == 5
ElementTypes == {<<"rect">>, <<"circle">>}
Attributes == {<<>>, <<[key |-> <<"r">>, value |-> [int |-> 7]]>>}
ElementData ==
    {[type |-> t, attributes |-> a] : t \in ElementTypes, a \in Attributes}
    \cup {[type |-> <<"rect">>]}
ElementLists == {<<>>} \cup {<<d>> : d \in ElementData}
                \cup {<<d, e>> : d \in ElementData, e \in {[type |-> <<"rect">>]}}

SceneInitOf(sc) ==
    /\ origin = <<>>
    /\ doc = <<>>
    /\ max_size_kb = DefaultMaxSizeKb
    /\ pc = "idle"
    /\ cur = "none"
    /\ input = <<>>
    /\ result = <<>>
    /\ level = 0
    /\ trace = <<>>
    /\ ret = [raised |-> "none"]
    /\ calls = 0
    /\ elements = sc.elements
    /\ generator = sc.generator
    /\ layer_manager = sc.layer_manager

GeneratorInit ==
    \E limit \in ElementLimits : SceneInitOf(ConstrainedGenerator(DefaultMaxSizeKb, limit))

\* a method called with the arguments args, in a scene of at most MaxNodes
\* objects
SceneCall(name, args, out) ==
    /\ Len(out.scene.elements) <= MaxNodes
    /\ cur' = name
    /\ input' = args
    /\ ret' = out.ret
    /\ elements' = out.scene.elements
    /\ generator' = out.scene.generator
    /\ layer_manager' = out.scene.layer_manager
    /\ UNCHANGED <<origin, doc, max_size_kb, pc, result, level, trace, calls>>

call_add_element ==
    \E element_type \in ElementTypes, attributes \in Attributes :
        SceneCall("add_element", <<element_type, attributes>>,
                  add_element(Scene, element_type, attributes))
call_add_elements ==
    \E data \in ElementLists :
        SceneCall("add_elements", <<data>>, add_elements(Scene, data))

GeneratorNext ==
    \/ call_add_element
    \/ call_add_elements

GeneratorSpec == GeneratorInit /\ [][GeneratorNext]_vars

(***************************************************************************)
(* LayerManager and SceneOrchestrator.  layers maps a layer id to the      *)
(* number of its object, z_indices to an int.                              *)
(***************************************************************************)
\* list.remove(x) for an x of the list
RemoveFirst(s, x) ==
    LET at == CHOOSE k \in 1..Len(s) : s[k] = x /\ \A j \in 1..(k - 1) : s[j] # x
    IN  Filter(s, (1..Len(s)) \ {at})

\* LayerManager.__init__
LayerManager == [layers |-> <<>>, z_indices |-> <<>>]

\* LayerManager.add_layer
add_layer(lm, layer_id, element, z_index) ==
    [layers |-> SetItem(lm.layers, layer_id, element),
     z_indices |-> SetItem(lm.z_indices, layer_id, z_index)]

\* LayerManager.get_layer
get_layer(lm, layer_id) ==
    IF HasKey(lm.layers, layer_id) THEN [element |-> GetItem(lm.layers, layer_id)]
    ELSE None

\* LayerManager.set_z_index
set_z_index(sc, layer_id, z_index) ==
    IF HasKey(sc.layer_manager.z_indices, layer_id)
    THEN Returns([sc EXCEPT !.layer_manager.z_indices = SetItem(@, layer_id, z_index)],
                 [bool |-> TRUE])
    ELSE Returns(sc, [bool |-> FALSE])

\* self.z_indices.get(x, 0)
ZIndexOf(lm, x) == IF HasKey(lm.z_indices, x) THEN GetItem(lm.z_indices, x) ELSE 0

\* LayerManager.get_ordered_layer_ids without the sort
get_ordered_layer_ids_unsorted(lm) == keys(lm.layers)

\* LayerManager.get_ordered_layer_ids: sorted() keeps equal keys in their order
get_ordered_layer_ids(lm) ==
    LET ids == keys(lm.layers)
        Before(i, j) == \/ ZIndexOf(lm, ids[i]) < ZIndexOf(lm, ids[j])
                        \/ ZIndexOf(lm, ids[i]) = ZIndexOf(lm, ids[j]) /\ i < j
        Place(i) == Cardinality({j \in 1..Len(ids) : Before(j, i)}) + 1
    IN  [p \in 1..Len(ids) |-> ids[CHOOSE i \in 1..Len(ids) : Place(i) = p]]

RECURSIVE MoveChildren(_, _, _, _)
\* for child in list(source): source.remove(child); target.append(child)
MoveChildren(objs, source, target, children) ==
    IF children = <<>> THEN objs
    ELSE LET child == Head(children)
             removed == [objs EXCEPT ![source].kids = RemoveFirst(@, child)]
         IN  MoveChildren([removed EXCEPT ![target].kids = Append(@, child)],
                          source, target, Tail(children))

RECURSIVE MergeEach(_, _, _, _)
\* the loop of merge_layers
MergeEach(sc, target, source_ids, success) ==
    IF source_ids = <<>> THEN Returns(sc, [bool |-> success])
    ELSE LET source_id == Head(source_ids)
             source == get_layer(sc.layer_manager, source_id)
         IN  IF IsNone(source) THEN MergeEach(sc, target, Tail(source_ids), FALSE)
             ELSE MergeEach(
                    [sc EXCEPT !.elements = MoveChildren(@, source.element, target,
                                                         @[source.element].kids),
                               !.layer_manager.layers = pop(@, source_id),
                               !.layer_manager.z_indices = pop(@, source_id)],
                    target, Tail(source_ids), success)

\* LayerManager.merge_layers without its self.z_indices.pop(source_id, None)
merge_layers_keeping_z_indices(sc, target_id, source_ids) ==
    LET target == get_layer(sc.layer_manager, target_id)
    IN  IF IsNone(target) THEN Returns(sc, [bool |-> FALSE])
        ELSE [MergeEach(sc, target.element, source_ids, TRUE)
                 EXCEPT !.scene.layer_manager.z_indices = sc.layer_manager.z_indices]

\* LayerManager.merge_layers
merge_layers(sc, target_id, source_ids) ==
    LET target == get_layer(sc.layer_manager, target_id)
    IN  IF IsNone(target) THEN Returns(sc, [bool |-> FALSE])
        ELSE MergeEach(sc, target.element, source_ids, TRUE)

\* LayerManager.clear
clear(sc) == Returns([sc EXCEPT !.layer_manager = LayerManager], None)

\* SceneOrchestrator.setup_document
setup_document(sc, width, height) ==
    [sc EXCEPT !.elements[sc.generator.root] =
        set(set(set(@, <<"width">>, str(width)), <<"height">>, str(height)),
            <<"viewBox">>, <<"0", " ", "0", " ">> \o str(width) \o <<" ">> \o str(height))]

\* SceneOrchestrator.__init__
SceneOrchestrator(width, height, size, limit) ==
    setup_document([ConstrainedGenerator(size, limit) EXCEPT !.layer_manager = LayerManager],
                   width, height)

\* SceneOrchestrator.create_layer
create_layer(sc, layer_id, z_index) ==
    LET out == add_element(sc, <<"g">>,
                           <<[key |-> <<"i", "d">>, value |-> [str |-> layer_id]],
                             [key |-> <<"data-", "z-", "index">>,
                              value |-> [int |-> z_index]]>>)
        layer == out.ret.value
    IN  IF ~IsNone(layer)
        THEN Returns([out.scene EXCEPT !.layer_manager =
                                          add_layer(@, layer_id, layer.element, z_index)],
                     [str |-> layer_id])
        ELSE Returns(out.scene, [str |-> layer_id])

\* SceneOrchestrator.add_to_layer
add_to_layer(sc, layer_id, element_type, attributes) ==
    LET layer == get_layer(sc.layer_manager, layer_id)
    IN  IF IsNone(layer) THEN Returns(sc, None)
        ELSE Returns([sc EXCEPT !.elements = SubElement(@, layer.element, element_type,
                                                        attributes),
                                !.generator.element_count = @ + 1],
                     [element |-> Len(sc.elements) + 1])

RECURSIVE ArrangeEach(_, _)
\* the loop of arrange_layers; root.remove raises ValueError for an object
\* that is not a child of the root
ArrangeEach(sc, ids) ==
    IF ids = <<>> THEN Returns(sc, None)
    ELSE LET layer == get_layer(sc.layer_manager, Head(ids))
             root == sc.generator.root
         IN  IF IsNone(layer) THEN ArrangeEach(sc, Tail(ids))
             ELSE IF \A k \in 1..Len(sc.elements[root].kids) :
                         sc.elements[root].kids[k] # layer.element
             THEN [scene |-> sc, ret |-> Raise("ValueError")]
             ELSE ArrangeEach(
                    [sc EXCEPT !.elements[root].kids =
                                   Append(RemoveFirst(@, layer.element), layer.element)],
                    Tail(ids))

\* SceneOrchestrator.arrange_layers
arrange_layers(sc) == ArrangeEach(sc, get_ordered_layer_ids(sc.layer_manager))

\* SceneOrchestrator.generate_svg
generate_svg(sc) ==
    LET out == arrange_layers(sc)
    IN  IF out.ret.raised # "none" THEN out
        ELSE Returns(out.scene, [str |-> to_string(out.scene)])

\* the arguments of the calls
LayerIds == {<<"a">>, <<"b">>}
ZIndices == {0, 1}
SourceLists == {<<>>} \cup {<<x>> : x \in LayerIds} \cup {<<x, y>> : x, y \in LayerIds}
DefaultWidth == [int |-> 800]
DefaultHeight == [int |-> 600]

\* max_elements of a scene: the least limit and the largest
SceneLimits == {1, MaxElements}

SceneInit ==
    \E limit \in SceneLimits :
        SceneInitOf(SceneOrchestrator(DefaultWidth, DefaultHeight, DefaultMaxSizeKb, limit))

call_create_layer ==
    \E layer_id \in LayerIds, z_index \in ZIndices :
        SceneCall("create_layer", <<layer_id, z_index>>,
                  create_layer(Scene, layer_id, z_index))
call_add_to_layer ==
    \E layer_id \in LayerIds :
        SceneCall("add_to_layer", <<layer_id, <<"rect">>, <<>>>>,
                  add_to_layer(Scene, layer_id, <<"rect">>, <<>>))
\* generator.add_element called on the generator of the scene
call_generator_add_element ==
    SceneCall("add_element", <<<<"circle">>, <<>>>>, add_element(Scene, <<"circle">>, <<>>))
call_arrange_layers == SceneCall("arrange_layers", <<>>, arrange_layers(Scene))
call_generate_svg == SceneCall("generate_svg", <<>>, generate_svg(Scene))

SceneNext ==
    \/ call_generator_add_element
    \/ call_create_layer
    \/ call_add_to_layer
    \/ call_arrange_layers
    \/ call_generate_svg

SceneSpec == SceneInit /\ [][SceneNext]_vars

\* The LayerManager of a scene: layers are registered and filled through the
\* scene, and the methods of its layer_manager are called.
call_set_z_index ==
    \E layer_id \in LayerIds, z_index \in ZIndices :
        SceneCall("set_z_index", <<layer_id, z_index>>,
                  set_z_index(Scene, layer_id, z_index))
call_merge_layers ==
    \E target_id \in LayerIds, source_ids \in SourceLists :
        SceneCall("merge_layers", <<target_id, source_ids>>,
                  merge_layers(Scene, target_id, source_ids))
call_clear == SceneCall("clear", <<>>, clear(Scene))

LayerNext ==
    \/ call_create_layer
    \/ call_add_to_layer
    \/ call_set_z_index
    \/ call_merge_layers
    \/ call_clear

LayerSpec == SceneInit /\ [][LayerNext]_vars


(***************************************************************************)
(* The claims                                                              *)
(***************************************************************************)
\* the call of `name` has returned
Returned(name) == pc = "idle" /\ calls > 0 /\ cur = name
LastOf(s) == s[Len(s)]
\* a size in KB (a count of 1/KbDen KB) is that of `bytes` bytes
IsKbOf(size_kb, bytes) == size_kb * 1024 = bytes * KbDen

StageOrder ==
    <<"remove_metadata", "_optimize_level_1", "_optimize_level_2", "_optimize_level_3",
      "_optimize_level_4", "_optimize_maximum">>
StageOutput(k, prev) ==
    CASE k = 1 -> remove_metadata(prev)
      [] k = 2 -> _optimize_level_1(prev)
      [] k = 3 -> _optimize_level_2(prev)
      [] k = 4 -> _optimize_level_3(prev)
      [] k = 5 -> _optimize_level_4(prev)
      [] k = 6 -> _optimize_maximum(prev)

\* C1: optimize applies remove_metadata to its input, then levels 1, 2, 3, 4
\* in that order, each to the output of the stage before, and measures after
\* each; it goes on only past a stage whose output is over the budget, and
\* returns the output of the first stage within it; _optimize_maximum comes
\* sixth, after four levels over the budget, and its output is returned.
C1_LevelsInOrder ==
    cur = "optimize" =>
        /\ Len(trace) \in 1..6
        /\ \A k \in 1..Len(trace) :
            /\ trace[k].stage = StageOrder[k]
            /\ trace[k].text = StageOutput(k, IF k = 1 THEN input ELSE trace[k - 1].text)
            /\ IsKbOf(trace[k].size_kb, ByteSize(trace[k].text))
            /\ trace[k].is_valid = (trace[k].size_kb <= max_size_kb)
            /\ k < Len(trace) => ~trace[k].is_valid
        /\ (pc = "idle") = (LastOf(trace).is_valid \/ Len(trace) = 6)
        /\ pc = "idle" => ret.raised = "none" /\ ret.text = LastOf(trace).text

\* optimize has returned the output of level 3, the first within the budget
C1_ReturnedAtLevel3 ==
    Returned("optimize") /\ Len(trace) = 4 /\ trace[4].is_valid /\ ret.text = trace[4].text

\* C2: a call of optimize applies at most five stages after remove_metadata,
\* no stage twice, and returns.
C2_Terminates ==
    /\ [](cur = "optimize" =>
            /\ Len(trace) <= 1 + 5
            /\ \A j, k \in 1..Len(trace) : j # k => trace[j].stage # trace[k].stage)
    /\ ((cur = "optimize" /\ pc # "idle") ~> Returned("optimize"))

\* optimize has returned after all five stages
C2_AllFiveApplied ==
    Returned("optimize") /\ Len(trace) = 6 /\ trace[6].stage = "_optimize_maximum"

\* C3: whatever the return path, the size optimize returns is the number of
\* bytes of the text it returns, over 1024.
C3_SizeOfReturnedText ==
    Returned("optimize") => IsKbOf(ret.size_kb, ByteSize(ret.text))

\* optimize has returned the output of _optimize_maximum, of another size
\* than the state before
C3_ReturnedAfterMaximum ==
    /\ Returned("optimize") /\ Len(trace) = 6
    /\ trace[6].size_kb # trace[5].size_kb
    /\ ret.text = trace[6].text

\* every stage applied, and the last output over the budget
Exhausted ==
    /\ pc = "idle" /\ calls > 0
    /\ \/ cur = "optimize" /\ Len(trace) = 6
       \/ cur = "ensure_compliance" /\ Len(trace) = 3
    /\ ~LastOf(trace).is_valid

C5_ValidateSize ==
    Returned("validate_size") =>
        /\ ret.is_valid = (ByteSize(input) * KbDen <= max_size_kb * 1024)
        /\ IsKbOf(ret.size_kb, ByteSize(input))
        /\ doc = input

\* a text of exactly the ceiling has been found valid
C5_ExactlyTheCeiling ==
    /\ Returned("validate_size")
    /\ ByteSize(input) * KbDen = max_size_kb * 1024
    /\ ret.is_valid

\* the ids of the children of the defs elements of a document
DefsIds(svg_str) ==
    {id \in UNION {{GetAttr(NodeAt(fromstring(svg_str).root, at).kids[j], IdName) :
                        j \in 1..Len(NodeAt(fromstring(svg_str).root, at).kids)} :
                   at \in {FindAllSvg(fromstring(svg_str).root, {<<"defs">>})[k] :
                            k \in 1..Len(FindAllSvg(fromstring(svg_str).root, {<<"defs">>}))}} :
        id # <<>>}
Referenced(id, svg_str) ==
    \/ Contains(svg_str, <<"url(", "#">> \o id \o <<")">>)
    \/ Contains(svg_str, <<"href", "=", DQ, "#">> \o id \o <<DQ>>)

\* C6: of a well-formed document, remove_unused_defs keeps every child of a
\* defs element whose id is referenced and removes every one whose id is
\* not, in every defs element of the document.
C6_PrunesEveryDefs ==
    (Returned("remove_unused_defs") /\ fromstring(input).ok) =>
        \A id \in DefsIds(input) : (id \in DefsIds(ret.text)) = Referenced(id, input)

TreeStages ==
    {"remove_unused_defs", "_group_similar_elements", "_remove_nonessential_elements",
     "_optimize_maximum"}

\* C7: no call raises; a tree stage called on a text that does not parse
\* returns that text; in optimize a level whose tree stage meets a text that
\* does not parse is the level without that stage, and the pipeline goes on.
C7_ParseFailureIsNoOp ==
    /\ ret.raised = "none"
    /\ (pc = "idle" /\ calls > 0 /\ cur \in TreeStages /\ ~fromstring(input).ok) =>
            ret.text = input /\ doc = input
    /\ cur = "optimize" =>
        \A k \in 2..Len(trace) :
            /\ (k = 2 /\ ~fromstring(trace[1].text).ok) =>
                    trace[2].text = simplify_paths(trace[1].text, 2)
            /\ (k = 4 /\ ~fromstring(minify_svg(trace[3].text)).ok) =>
                    trace[4].text = minify_svg(trace[3].text)
            /\ (k = 5 /\ ~fromstring(simplify_paths(trace[4].text, 0)).ok) =>
                    trace[5].text = simplify_paths(trace[4].text, 0)
            /\ (k = 6 /\ ~fromstring(trace[5].text).ok) => trace[6].text = trace[5].text

\* optimize has gone through every stage on a text that never parsed
C7_UnparsedThroughout ==
    /\ Returned("optimize") /\ Len(trace) = 6
    /\ \A k \in 1..5 : ~fromstring(trace[k].text).ok
    /\ ret.text = trace[5].text

Stages ==
    {"remove_metadata", "remove_unused_defs", "simplify_paths",
     "_remove_unnecessary_attributes", "minify_svg", "_group_similar_elements",
     "_remove_nonessential_elements", "_optimize_maximum"}

\* C8: the output of a stage has no more bytes than its input.
C8_NoStageGrows ==
    (pc = "idle" /\ calls > 0 /\ cur \in Stages) => ByteSize(ret.text) <= ByteSize(input)

\* C9: when optimize has gone through every stage, the size it returns is
\* at most the size measured after level 1.
C9_FinalWithinLevel1 ==
    (Returned("optimize") /\ Len(trace) = 6) => ret.size_kb <= trace[2].size_kb

\* C10: remove_metadata applied to its own output, the first input being
\* well-formed, returns it unchanged.
C10_SanitizerIdempotent ==
    (Returned("remove_metadata") /\ calls = 2 /\ fromstring(origin).ok) => ret.text = input

\* the attributes written in the start tags of a text, each [pfx, name, val]
WrittenAttrs(t) ==
    UNION {{ParseAttrs(t, ParseQName(t, i + 1).pos, <<>>).attrs[k] :
                k \in 1..Len(ParseAttrs(t, ParseQName(t, i + 1).pos, <<>>).attrs)} :
           i \in {j \in 1..(Len(t) - 1) : t[j] = "<" /\ ParseQName(t, j + 1).ok}}
\* an attribute inkscape:..., or a declaration xmlns:inkscape, and so on
EditorPrefixed(a) ==
    \/ a.pfx \in {<<p>> : p \in EditorPrefixes}
    \/ a.pfx = <<"xmlns">> /\ a.name \in {<<p>> : p \in EditorPrefixes}
\* a start tag of a metadata element
HasMetadata(t) == \E j \in 1..(Len(t) - 1) : t[j] = "<" /\ t[j + 1] = "metadata"
HasComment(t) == \E j \in 1..Len(t) : t[j] = "<!--"

\* C11: what remove_metadata returns for a well-formed document has no
\* metadata element, no comment, and no attribute or namespace declaration
\* with an editor prefix.
C11_SanitizerRemovesAll ==
    (Returned("remove_metadata") /\ calls = 1 /\ fromstring(input).ok) =>
        /\ ~HasMetadata(ret.text)
        /\ ~HasComment(ret.text)
        /\ \A a \in WrittenAttrs(ret.text) : ~EditorPrefixed(a)

\* the start tags written in a text: the name and the set of the attributes
SeqRange(s) == {s[k] : k \in 1..Len(s)}
TagAt(t, q) ==
    [pfx |-> q.pfx, name |-> q.name, attrs |-> SeqRange(ParseAttrs(t, q.pos, <<>>).attrs)]
WrittenTags(t) ==
    {TagAt(t, ParseQName(t, j + 1)) :
        j \in {j \in 1..(Len(t) - 1) : t[j] = "<" /\ ParseQName(t, j + 1).ok}}

\* C12: every start tag of what remove_metadata returns for a well-formed
\* document is a start tag of the document, with attributes of that tag
\* only, each with the value it had.
C12_SanitizerSubset ==
    (Returned("remove_metadata") /\ calls = 1 /\ fromstring(input).ok) =>
        \A o \in WrittenTags(ret.text) :
            \E i \in WrittenTags(input) :
                o.pfx = i.pfx /\ o.name = i.name /\ o.attrs \subseteq i.attrs

\* the start tags written in a text, in order, each with its attributes in
\* order
TagsInOrder(t) ==
    Filter([j \in 1..Len(t) |-> [name |-> ParseQName(t, j + 1),
                                  attrs |-> ParseAttrs(t, ParseQName(t, j + 1).pos, <<>>).attrs]],
           {j \in 1..(Len(t) - 1) : t[j] = "<" /\ ParseQName(t, j + 1).ok})
\* the attribute d, which holds path data
IsPathData(a) == a.pfx = <<>> /\ a.name = <<"d">>
\* path data without its numbers: the command letters and what separates
\* the numbers
PathCommands(val) == Remove(val, NumberPattern)
\* attribute b is attribute a, but for the numbers of path data
SameButNumbers(a, b) ==
    /\ a.pfx = b.pfx /\ a.name = b.name
    /\ IF IsPathData(a) THEN PathCommands(a.val) = PathCommands(b.val) ELSE a.val = b.val
\* the tags tb are the tags ta, but for the numbers of path data
SameTagsButNumbers(ta, tb) ==
    /\ Len(ta) = Len(tb)
    /\ \A k \in 1..Len(ta) :
        /\ ta[k].name.pfx = tb[k].name.pfx /\ ta[k].name.name = tb[k].name.name
        /\ Len(ta[k].attrs) = Len(tb[k].attrs)
        /\ \A m \in 1..Len(ta[k].attrs) : SameButNumbers(ta[k].attrs[m], tb[k].attrs[m])

\* C13: what simplify_paths returns for a well-formed document has the tags
\* of the document, each attribute but d with the value it had, and each d
\* with the command letters it had, in their order.
C13_OnlyPathNumbers ==
    (Returned("simplify_paths") /\ calls = 1 /\ fromstring(input).ok) =>
        SameTagsButNumbers(TagsInOrder(input), TagsInOrder(ret.text))

\* the numeric literals of path data, in order
LiteralsAt(val, ms) == [k \in 1..Len(ms) |-> SubSeq(val, ms[k][1], ms[k][2])]
Literals(val) ==
    LiteralsAt(val, IF val = <<>> THEN <<>> ELSE Matches(val, NumberPattern, 1))
\* the value v in units of 10^-scale, signed
Units(v, scale) == (IF v.neg THEN -1 ELSE 1) * v.n * Pow10(scale - v.scale)
Greater(a, b) == IF a > b THEN a ELSE b
Distance(a, b) == IF a > b THEN a - b ELSE b - a
\* |a - b| <= 0.5 * 10^-N, compared in units of 10^-scale
WithinAt(a, b, N, scale) ==
    2 * Distance(Units(a, scale), Units(b, scale)) <= Pow10(scale - N)
Within(a, b, N) == WithinAt(a, b, N, Greater(N, Greater(a.scale, b.scale)))
\* no decimal point, or a fraction that does not end in 0
IsMinimal(lit) == (\E k \in 1..Len(lit) : lit[k] = ".") => lit[Len(lit)] # "0"
\* lit_out is lit_in rounded to N places
RoundedLiteral(lit_in, lit_out, N) ==
    /\ Within(ParseNumber(lit_in), ParseNumber(lit_out), N)
    /\ IsMinimal(lit_out)
    /\ N = 0 => \A k \in 1..Len(lit_out) : lit_out[k] # "."
RoundedLiterals(ls_in, ls_out, N) ==
    /\ Len(ls_in) = Len(ls_out)
    /\ \A k \in 1..Len(ls_in) : RoundedLiteral(ls_in[k], ls_out[k], N)
\* every d of the tags tb holds the numbers of the d of ta, rounded
RoundedTags(ta, tb, N) ==
    /\ Len(ta) = Len(tb)
    /\ \A k \in 1..Len(ta) :
        /\ Len(ta[k].attrs) = Len(tb[k].attrs)
        /\ \A m \in 1..Len(ta[k].attrs) :
            IsPathData(ta[k].attrs[m]) =>
                /\ IsPathData(tb[k].attrs[m])
                /\ RoundedLiterals(Literals(ta[k].attrs[m].val),
                                   Literals(tb[k].attrs[m].val), N)

\* C14: in what simplify_paths returns at precision N for a well-formed
\* document, the path data of each d holds as many numbers as before, each
\* within 0.5 * 10^-N of the number it replaces and written without
\* trailing zeros, and without a decimal point when N is 0.
C14_RoundedIndependently ==
    (Returned("simplify_paths") /\ calls = 1 /\ fromstring(input).ok) =>
        \A N \in 0..2 :
            ret.text = simplify_paths(input, N) =>
                RoundedTags(TagsInOrder(input), TagsInOrder(ret.text), N)

RECURSIVE ElementsOf(_)
\* the elements of a tree, in order, with their attributes but version
ElementsOf(e) ==
    [uri |-> e.uri, name |-> e.name,
     attrs |-> Filter(e.attrs, {k \in 1..Len(e.attrs) :
                                  ~(e.attrs[k].uri = "" /\ e.attrs[k].name = <<"version">>)}),
     kids |-> [k \in 1..Len(e.kids) |-> ElementsOf(e.kids[k])]]

\* C15: what minify_svg returns for a well-formed document is well-formed
\* and parses to the elements of the document, in their order, with their
\* attributes and values, but for the attribute version.
C15_MinifyKeepsTree ==
    (Returned("minify_svg") /\ calls = 1 /\ fromstring(input).ok) =>
        /\ fromstring(ret.text).ok
        /\ ElementsOf(fromstring(ret.text).root) = ElementsOf(fromstring(input).root)

\* the places of the elements of the namespace that are no group and no
\* defs and have a style key
StyledPlaces(root) ==
    {p \in SeqRange(Descendants(root, <<>>)) :
        /\ NodeAt(root, p).uri = SVGNS
        /\ NodeAt(root, p).name \notin EndsWithG \cup EndsWithDefs
        /\ StyleKey(NodeAt(root, p)) # {}}
\* the style keys that three elements or more share
SharedStyles(root) ==
    {key \in {StyleKey(NodeAt(root, p)) : p \in StyledPlaces(root)} :
        Cardinality({p \in StyledPlaces(root) : StyleKey(NodeAt(root, p)) = key}) >= 3}
\* g is a group of the style key, of n children that carry none of it
IsGroupOf(g, key, n) ==
    /\ g.uri = SVGNS /\ g.name = <<"g">>
    /\ StyleKey(g) = key
    /\ Len(g.kids) = n
    /\ \A k \in 1..n : \A pair \in key : ~HasAttr(g.kids[k], pair[1])

\* C16: for a well-formed document, what _group_similar_elements returns
\* ends, for a style key that three elements or more share, with a group
\* that carries the key and holds those elements without it; a document
\* without such a key keeps its tree.
C16_GroupsThreeOrMore ==
    (Returned("_group_similar_elements") /\ calls = 1 /\ fromstring(input).ok) =>
        LET root == fromstring(input).root
            out == fromstring(ret.text)
        IN  /\ out.ok
            /\ IF SharedStyles(root) = {} THEN out.root = root
               ELSE /\ out.root.kids # <<>>
                    /\ \E key \in SharedStyles(root) :
                          IsGroupOf(out.root.kids[Len(out.root.kids)], key,
                                    Cardinality({p \in StyledPlaces(root) :
                                                   StyleKey(NodeAt(root, p)) = key}))

\* a title, a desc, or a group without children
Nonessential(e) ==
    /\ e.uri = SVGNS
    /\ \/ e.name \in {<<"title">>, <<"desc">>}
       \/ e.name = <<"g">> /\ e.kids = <<>>
\* the places below the root, in document order, of the elements that are
\* nonessential, or of the others
PlacesWhere(root, nonessential) ==
    LET ds == Descendants(root, <<>>)
    IN  Filter(ds, {k \in 1..Len(ds) : Nonessential(NodeAt(root, ds[k])) = nonessential})
\* the names and attributes of the elements at the places
NamedAt(root, places) ==
    [k \in 1..Len(places) |->
        [uri |-> NodeAt(root, places[k]).uri, name |-> NodeAt(root, places[k]).name,
         attrs |-> NodeAt(root, places[k]).attrs]]

\* C17: for a well-formed document, what _remove_nonessential_elements
\* returns holds no title, no desc and no group without children, and
\* holds every other element of the document.
C17_NoNonessentialLeft ==
    (Returned("_remove_nonessential_elements") /\ calls = 1 /\ fromstring(input).ok) =>
        LET root == fromstring(input).root
            out == fromstring(ret.text)
        IN  /\ out.ok
            /\ PlacesWhere(out.root, TRUE) = <<>>
            /\ NamedAt(out.root, PlacesWhere(out.root, FALSE))
                   = NamedAt(root, PlacesWhere(root, FALSE))

\* the integer a whole number written with a fraction of zeros stands for:
\* its sign and digits, and a zero where it has no digit before the point
IntegerText(value) ==
    LET head == BeforeDot(value)
    IN  IF \E k \in 1..Len(head) : head[k] \in Digits THEN head ELSE head \o <<"0">>

RECURSIVE WholeAsInteger(_)
\* the tree with every whole number among its attribute values as an integer
WholeAsInteger(e) ==
    [e EXCEPT
        !.attrs = [k \in 1..Len(e.attrs) |->
                    IF MatchAt(e.attrs[k].val, 1, WholeNumberPattern, 1) # 0
                    THEN [e.attrs[k] EXCEPT !.val = IntegerText(@)]
                    ELSE e.attrs[k]],
        !.kids = [k \in 1..Len(e.kids) |-> WholeAsInteger(e.kids[k])]]

\* C18: for a well-formed document, what _optimize_maximum returns is the
\* minified text of the document's tree with every whole number written
\* with a fraction of zeros replaced by its integer, ".0" by "0", and
\* every other attribute value as it was.
C18_WholeNumbersAsIntegers ==
    (Returned("_optimize_maximum") /\ calls = 1 /\ fromstring(input).ok) =>
        ret.text = minify_svg(tostring(WholeAsInteger(fromstring(input).root)))

\* is the text within the budget
Fits(svg_str, budget) == ByteSize(svg_str) * KbDen <= budget * 1024
\* the first of the texts that is within the budget, or the last of them
FirstFitting(texts, budget) ==
    IF \E k \in 1..Len(texts) : Fits(texts[k], budget)
    THEN texts[CHOOSE k \in 1..Len(texts) :
                   Fits(texts[k], budget) /\ \A m \in 1..(k - 1) : ~Fits(texts[m], budget)]
    ELSE texts[Len(texts)]
\* the three texts ensure_compliance makes of a document, in order
EnsureThird(cleaned, aggressive) ==
    <<cleaned, aggressive, simplify_paths(minify_svg(aggressive), 0)>>
EnsureSecond(cleaned) ==
    EnsureThird(cleaned, simplify_paths(remove_unused_defs(cleaned), 1))
EnsureTexts(svg_str) == EnsureSecond(remove_metadata(svg_str))
\* value is the first of the texts within the budget, or the last, over it
BestEffort(value, texts, budget) ==
    /\ value.raised = "none"
    /\ value.text = FirstFitting(texts, budget)
    /\ Fits(value.text, budget) = (\E k \in 1..Len(texts) : Fits(texts[k], budget))

RECURSIVE OptimizeTexts(_, _)
\* the texts optimize makes of a document, in order, after those of texts
OptimizeTexts(svg_str, texts) ==
    IF Len(texts) = Len(StageOrder) THEN texts
    ELSE OptimizeTexts(svg_str,
                       Append(texts, StageOutput(Len(texts) + 1,
                                                 IF texts = <<>> THEN svg_str
                                                 ELSE LastOf(texts))))
\* what a call run alone returns
WithSize(svg_str) ==
    [raised |-> "none", text |-> svg_str, size_kb |-> KbOfBytes(ByteSize(svg_str))]
Alone(name, args, self_max_size_kb) ==
    IF name = "optimize"
    THEN WithSize(FirstFitting(OptimizeTexts(args.svg_str, <<>>), self_max_size_kb))
    ELSE [raised |-> "none",
          text |-> FirstFitting(EnsureTexts(args.svg_str), args.max_size_kb)]

\* C19: however the stages of two calls of optimize and ensure_compliance
\* on one optimizer are interleaved, each call returns what it returns
\* when run alone on its document and budget, and no step changes the
\* optimizer's max_size_kb.
C19_Reentrant ==
    /\ [](\A t \in Threads :
            pc[t] = "returned" => ret[t] = Alone(cur[t], input[t], max_size_kb))
    /\ [][max_size_kb' = max_size_kb]_vars

\* both calls have returned, on different documents, and each made a
\* check after its first while the other was inside its call
C19_BothReturnedInterleaved ==
    /\ calls = 2 /\ origin["a"] # origin["b"]
    /\ cur["a"] = "optimize" /\ cur["b"] = "ensure_compliance"
    /\ \A t \in Threads :
          /\ pc[t] = "returned"
          /\ \E k \in 2..Len(trace[t]) : trace[t][k].during # {}

\* C26: what _remove_unnecessary_attributes returns for a well-formed
\* document still holds the definition of every id the document refers to.
C26_ReferencedIdsKept ==
    (Returned("_remove_unnecessary_attributes") /\ calls = 1 /\ fromstring(input).ok) =>
        \A id \in DefsIds(input) :
            (Referenced(id, input) /\ Referenced(id, ret.text)) => id \in DefsIds(ret.text)

\* the attributes at their default value that level 2 takes out
DefaultAttrs ==
    {<<<<"opacity">>, <<"1">>>>, <<<<"fill-", "opacity">>, <<"1">>>>,
     <<<<"stroke-", "opacity">>, <<"1">>>>, <<<<"stroke-", "linecap">>, <<"butt">>>>,
     <<<<"stroke-", "linejoin">>, <<"miter">>>>}
\* an attribute level 2 takes out: an id, a class, or one at its default
Unnecessary(a) ==
    /\ a.uri = ""
    /\ a.name \in {IdName, <<"class">>} \/ <<a.name, a.val>> \in DefaultAttrs
RECURSIVE Necessary(_)
\* the tree without those attributes
Necessary(e) ==
    [e EXCEPT !.attrs = Filter(@, {k \in 1..Len(e.attrs) : ~Unnecessary(e.attrs[k])}),
              !.kids = [k \in 1..Len(e.kids) |-> Necessary(e.kids[k])]]

\* C27: what _remove_unnecessary_attributes returns for a well-formed
\* document is well-formed and is the document less whole attributes: the
\* ids, the classes and the attributes at their default value; every other
\* attribute has the name and the value it had.
C27_OnlyWholeDefaults ==
    (Returned("_remove_unnecessary_attributes") /\ calls = 1 /\ fromstring(input).ok) =>
        /\ fromstring(ret.text).ok
        /\ fromstring(ret.text).root = Necessary(fromstring(input).root)

\* the path data of a text, in order
PathData(t) ==
    Flatten([k \in 1..Len(TagsInOrder(t)) |->
                [m \in 1..Len(Filter(TagsInOrder(t)[k].attrs,
                                     {j \in 1..Len(TagsInOrder(t)[k].attrs) :
                                        IsPathData(TagsInOrder(t)[k].attrs[j])})) |->
                    Filter(TagsInOrder(t)[k].attrs,
                           {j \in 1..Len(TagsInOrder(t)[k].attrs) :
                              IsPathData(TagsInOrder(t)[k].attrs[j])})[m].val]])

\* C28: in what simplify_paths returns for a well-formed document, each
\* path holds as many numbers as it held, the i-th of them the i-th of the
\* document rounded to the precision of the call.
C28_LiteralsNeverMerge ==
    (Returned("simplify_paths") /\ calls = 1 /\ fromstring(input).ok) =>
        /\ Len(PathData(ret.text)) = Len(PathData(input))
        /\ \A k \in 1..Len(PathData(input)) :
            /\ Len(Literals(PathData(ret.text)[k])) = Len(Literals(PathData(input)[k]))
            /\ \E N \in 0..2 :
                /\ ret.text = simplify_paths(input, N)
                /\ \A i \in 1..Len(Literals(PathData(input)[k])) :
                      Within(ParseNumber(Literals(PathData(input)[k])[i]),
                             ParseNumber(Literals(PathData(ret.text)[k])[i]), N)

\* C29: what remove_unused_defs returns for a well-formed document is a
\* fixed point: remove_unused_defs returns it as it is.
C29_PruningIsFixedPoint ==
    (Returned("remove_unused_defs") /\ calls = 1 /\ fromstring(input).ok) =>
        remove_unused_defs(ret.text) = ret.text

\* the tag of what a creator makes, and the attribute names of its
\* positional geometry parameters, in the order of the parameters
TagOf(creator) ==
    CASE creator = "create_circle" -> <<"circle">>
      [] creator = "create_rectangle" -> <<"rect">>
      [] creator = "create_line" -> <<"line">>
      [] creator = "create_path" -> <<"path">>
      [] creator = "create_text" -> <<"text">>
GeometryOf(creator) ==
    CASE creator = "create_circle" -> << <<"cx">>, <<"cy">>, <<"r">> >>
      [] creator = "create_rectangle" -> << <<"x">>, <<"y">>, <<"width">>, <<"height">> >>
      [] creator = "create_line" -> << <<"x", "1">>, <<"y", "1">>, <<"x", "2">>, <<"y", "2">> >>
      [] creator = "create_path" -> << <<"d">> >>
      [] creator = "create_text" -> << <<"x">>, <<"y">> >>
\* element has the attribute key with the text of value
Carries(element, key, value) == HasAttr(element, key) /\ GetAttr(element, key) = str(value)

\* C25: what a creator returns is one element of the creator's tag that
\* has every geometry parameter under its attribute name and every keyword
\* under the keyword's name, each with str(value); create_text has the text
\* as content.
C25_FactoryCarriesAll ==
    (pc = "idle" /\ calls = 1 /\ cur \in {"create_circle", "create_rectangle", "create_line",
                                          "create_path", "create_text"}) =>
        /\ fromstring(ret.text).ok
        /\ fromstring(ret.text).root.uri = ""
        /\ fromstring(ret.text).root.name = TagOf(cur)
        /\ fromstring(ret.text).root.kids = <<>>
        /\ \A k \in 1..Len(GeometryOf(cur)) :
              Carries(fromstring(ret.text).root, GeometryOf(cur)[k], input[k])
        /\ \A k \in 1..Len(input[Len(input)]) :
              Carries(fromstring(ret.text).root, input[Len(input)][k].key,
                      input[Len(input)][k].value)
        /\ cur = "create_text" => fromstring(ret.text).root.text = input[3].str

(***************************************************************************)
(* C21: add_element at the limit (element_count >= max_elements) returns   *)
(* None and changes neither the tree nor element_count; under the limit it *)
(* appends exactly one new child to the root, with the tag and attributes  *)
(* asked for, and adds one to element_count.  So element_count never       *)
(* exceeds max_elements after add_element and add_elements calls, and      *)
(* add_elements returns the number of elements it added.                   *)
(***************************************************************************)
RootKids(objs) == objs[generator.root].kids

AddElementStep ==
    cur' = "add_element" =>
        IF generator.element_count >= generator.max_elements
        THEN /\ IsNone(ret'.value)
             /\ elements' = elements
             /\ generator' = generator
        ELSE /\ ret'.value = [element |-> Len(elements) + 1]
             /\ Len(elements') = Len(elements) + 1
             /\ RootKids(elements') = Append(RootKids(elements), Len(elements) + 1)
             /\ \A h \in 2..Len(elements) : elements'[h] = elements[h]
             /\ elements'[1] = [elements[1] EXCEPT !.kids = RootKids(elements')]
             /\ elements'[Len(elements')].name = input'[1]
             /\ elements'[Len(elements')].kids = <<>>
             /\ \A k \in 1..Len(input'[2]) :
                    GetAttr(elements'[Len(elements')], input'[2][k].key)
                        = str(input'[2][k].value)
             /\ generator' = [generator EXCEPT !.element_count = @ + 1]

AddElementsStep ==
    cur' = "add_elements" =>
        /\ "int" \in DOMAIN ret'.value
        /\ ret'.value.int = Len(RootKids(elements')) - Len(RootKids(elements))
        /\ ret'.value.int = generator'.element_count - generator.element_count
        /\ ret'.value.int = Len(elements') - Len(elements)
        /\ SubSeq(elements', 2, Len(elements)) = SubSeq(elements, 2, Len(elements))

C21_LimitHolds ==
    /\ [](generator.element_count <= generator.max_elements)
    /\ [][AddElementStep]_vars
    /\ [][AddElementsStep]_vars

\* add_element has returned None at the limit, with max_elements children
C21_RefusedAtLimit ==
    /\ cur = "add_element"
    /\ IsNone(ret.value)
    /\ generator.element_count = generator.max_elements
    /\ Len(RootKids(elements)) = generator.max_elements

(***************************************************************************)
(* C22: in a scene, neither generator.element_count nor the number of      *)
(* elements under the root of the document ever exceeds max_elements.      *)
(***************************************************************************)
C22_SceneWithinMaxElements ==
    /\ generator.element_count <= generator.max_elements
    /\ Len(elements) - 1 <= generator.max_elements

(***************************************************************************)
(* C23: arrange_layers, alone or in generate_svg, leaves the registered    *)
(* layers as the last children of the root, in ascending z-index order and *)
(* layers of equal z-index in registration order; the other children of    *)
(* the root keep their order before them, and the text generate_svg        *)
(* returns has the children in that order.                                 *)
(***************************************************************************)
LayerObjects == {layer_manager.layers[k].value : k \in 1..Len(layer_manager.layers)}
\* the place of the id of a registered object among the keys of layers
KeyPlace(h) == CHOOSE k \in 1..Len(layer_manager.layers) : layer_manager.layers[k].value = h
ZOfObject(h) == ZIndexOf(layer_manager, layer_manager.layers[KeyPlace(h)].key)

\* the children of the parsed text are the objects hs, in this order
TextHasChildren(text, objs, hs) ==
    LET parsed == fromstring(text)
    IN  /\ parsed.ok
        /\ Len(parsed.root.kids) = Len(hs)
        /\ \A p \in 1..Len(hs) :
              /\ parsed.root.kids[p].name = objs[hs[p]].name
              /\ parsed.root.kids[p].attrs = objs[hs[p]].attrs
              /\ Len(parsed.root.kids[p].kids) = Len(objs[hs[p]].kids)

\* generate_svg has returned the text of the scene as it has left it
GeneratedText ==
    (cur = "generate_svg" /\ ret.raised = "none") =>
        /\ "str" \in DOMAIN ret.value
        /\ TextHasChildren(ret.value.str, elements, RootKids(elements))

\* what a step of arrange_layers or generate_svg does, Earlier(g, h) being the
\* order of two registered objects of equal z-index
Arranged(Earlier(_, _)) ==
    (cur' \in {"arrange_layers", "generate_svg"}) =>
        LET before == RootKids(elements)
            after  == RootKids(elements')
            first  == Len(after) - Cardinality(LayerObjects) + 1
        IN  /\ ret'.raised = "none"
            /\ layer_manager' = layer_manager
            /\ generator' = generator
            /\ Len(elements') = Len(elements)
            /\ \A h \in 2..Len(elements) : elements'[h] = elements[h]
            /\ elements'[1] = [elements[1] EXCEPT !.kids = after]
            /\ Len(after) = Len(before)
            /\ first >= 1
            /\ {after[p] : p \in first..Len(after)} = LayerObjects
            /\ \A p, q \in first..Len(after) :
                  p < q => \/ ZOfObject(after[p]) < ZOfObject(after[q])
                           \/ /\ ZOfObject(after[p]) = ZOfObject(after[q])
                              /\ Earlier(after[p], after[q])
            /\ SubSeq(after, 1, first - 1)
                  = Filter(before, {p \in 1..Len(before) : before[p] \notin LayerObjects})

\* objects are numbered as they are created, and a layer is registered when it
\* is created
RegisteredEarlier(g, h) == g < h
KeyEarlier(g, h) == KeyPlace(g) < KeyPlace(h)

\* the statement: layers of equal z-index in the order of their registration
C23_EqualZInRegistrationOrder == []GeneratedText /\ [][Arranged(RegisteredEarlier)]_vars

\* C23 as the code has it: layers of equal z-index in the order of the keys of
\* layers, where an id registered again keeps the place of its first
\* registration
C23_EqualZInKeyOrder == []GeneratedText /\ [][Arranged(KeyEarlier)]_vars

\* arranged: two layers of equal z-index, the first key registered again after
\* the second was, and a child of the root that is no layer before them
C23_ArrangedReregistered ==
    /\ cur = "arrange_layers"
    /\ Len(layer_manager.layers) = 2
    /\ layer_manager.z_indices[1].value = layer_manager.z_indices[2].value
    /\ layer_manager.layers[1].value > layer_manager.layers[2].value
    /\ Len(RootKids(elements)) = 3
    /\ RootKids(elements)[1] \notin LayerObjects
    /\ RootKids(elements)[2] = layer_manager.layers[1].value
    /\ RootKids(elements)[3] = layer_manager.layers[2].value

(***************************************************************************)
(* C24: merge_layers(target_id, source_ids) with an unregistered target    *)
(* returns False and changes nothing.  With a registered target, every id  *)
(* of source_ids that is registered when the loop reaches it has its       *)
(* children moved, in their order, to the end of the target, and is        *)
(* removed from layers and from z_indices; the ids that are not are        *)
(* skipped; the call returns True exactly when every id was registered     *)
(* when reached.                                                           *)
(***************************************************************************)
Registered(layer_id) == HasKey(layer_manager.layers, layer_id)
\* the k-th of source_ids is registered when the loop reaches it: registered
\* before the call, and not removed by an earlier place of the list
RegisteredWhenReached(source_ids, k) ==
    /\ Registered(source_ids[k])
    /\ \A j \in 1..(k - 1) : source_ids[j] # source_ids[k]
ObjectOf(layer_id) == GetItem(layer_manager.layers, layer_id)

MergeLayersStep ==
    cur' = "merge_layers" =>
        LET target_id  == input'[1]
            source_ids == input'[2]
            reached == {k \in 1..Len(source_ids) : RegisteredWhenReached(source_ids, k)}
            merged  == {source_ids[k] : k \in reached}
            emptied == {ObjectOf(id) : id \in merged \ {target_id}}
            kept(dict) == Filter(dict, {k \in 1..Len(dict) : dict[k].key \notin merged})
        IN  /\ ret'.raised = "none"
            /\ "bool" \in DOMAIN ret'.value
            /\ generator' = generator
            /\ Len(elements') = Len(elements)
            /\ IF ~Registered(target_id)
               THEN /\ ret'.value.bool = FALSE
                    /\ elements' = elements
                    /\ layer_manager' = layer_manager
               ELSE /\ ret'.value.bool = (reached = 1..Len(source_ids))
                    /\ layer_manager'.layers = kept(layer_manager.layers)
                    /\ layer_manager'.z_indices = kept(layer_manager.z_indices)
                    /\ \A h \in 1..Len(elements) :
                          elements'[h] =
                              [elements[h] EXCEPT !.kids =
                                  IF h = ObjectOf(target_id)
                                  THEN @ \o Flatten([k \in 1..Len(source_ids) |->
                                          IF k \in reached /\ source_ids[k] # target_id
                                          THEN elements[ObjectOf(source_ids[k])].kids
                                          ELSE <<>>])
                                  ELSE IF h \in emptied THEN <<>>
                                  ELSE @]

C24_MergeMovesAndRemoves == [][MergeLayersStep]_vars

\* merged with True: the one source is no longer registered and has no child,
\* the target holds its own child and then, moved behind it, the older child of
\* the source
C24_MergedBehindTarget ==
    /\ cur = "merge_layers"
    /\ ret.value = [bool |-> TRUE]
    /\ Len(input[2]) = 1
    /\ input[2][1] # input[1]
    /\ Registered(input[1])
    /\ ~Registered(input[2][1])
    /\ ~HasKey(layer_manager.z_indices, input[2][1])
    /\ Len(elements[ObjectOf(input[1])].kids) = 2
    /\ elements[ObjectOf(input[1])].kids[1] > elements[ObjectOf(input[1])].kids[2]

(***************************************************************************)
(* C30: layers and z_indices always have the same keys, and a              *)
(* merge_layers that returns True leaves the target registered, with the   *)
(* z-index it had, also when target_id is one of source_ids.               *)
(***************************************************************************)
SameKeys == keys(layer_manager.layers) = keys(layer_manager.z_indices)

MergeKeepsTarget ==
    (cur' = "merge_layers" /\ ret'.value = [bool |-> TRUE]) =>
        /\ HasKey(layer_manager'.layers, input'[1])
        /\ HasKey(layer_manager'.z_indices, input'[1])
        /\ GetItem(layer_manager'.layers, input'[1]) = ObjectOf(input'[1])
        /\ ZIndexOf(layer_manager', input'[1]) = ZIndexOf(layer_manager, input'[1])

C30_RegistryConsistent == []SameKeys /\ [][MergeKeepsTarget]_vars

====
